---- MODULE Spec2Model ----
(***************************************************************************)
(* A model of flexi_logger's log specification engine                      *)
(* (src/src/log_specification.rs), of the specification store and its      *)
(* reconfiguration (src/src/logger.rs) and of the writer dispatch          *)
(* (src/src/primary_writer.rs).                                            *)
(*                                                                         *)
(* Strings are sequences of one-character strings, so that split, trim,    *)
(* to_lowercase and starts_with are computed character by character.       *)
(***************************************************************************)
EXTENDS Integers, Sequences, FiniteSets, TLC

VARIABLES
    \* ---- specification engine (parse / from_toml / builder / enabled)
    phase,      \* "start", "building", "built", "evaluated"
    origin,     \* which constructor produced curSpec
    input,      \* the text handed to parse
    doc,        \* the file content handed to from_toml
    builder,    \* LogSpecBuilder.module_filters: a set of [key, lf] entries
    nOps,       \* number of builder calls made so far
    lastDefault,\* history: the level of the last nameless entry given to the builder
    bHist,      \* history: the last module calls on the builder, and an earlier build
    curSpec,    \* the LogSpecification under evaluation
    diags,      \* parse_errs of the last constructor
    ctorOk,     \* the last constructor returned Ok
    qLevel,     \* level of the last enabled() call
    qPath,      \* target module of the last enabled() call
    qResult,    \* result of the last enabled() call
    reread,     \* what from_toml made of the to_toml rendering of curSpec
    \* ---- specification store (Arc<RwLock<LogSpecification>>) and marker
    store,      \* the LogSpecification inside the RwLock
    maxLevel,   \* the log crate's global maximum level (log::set_max_level)
    installed,  \* log::set_boxed_logger has been called
    startPc,    \* position of Logger::start
    wLock,      \* the RwLock is held exclusively
    rLock,      \* the threads holding the RwLock shared
    hpc,        \* position of the thread that owns the ReconfigurationHandle
    hNew,       \* the specification it is installing
    versions,   \* history: the specifications made active so far, in order
    returned,   \* history: how many of them were completely installed
    em,         \* the emitting threads
    \* ---- writer dispatch (PrimaryWriter) on one thread
    strategy,   \* the PrimaryWriter variant: "stderr", "stdout", "multi", "blackhole"
    duplicate,  \* the Duplicate setting of MultiWriter / BlackHoleWriter
    nSinks,     \* MultiWriter.writers.len()
    stack,      \* the PrimaryWriter::write calls in progress, outermost first
    tlBuf,      \* the thread-local BUFFER
    tlBorrowed, \* its RefCell is mutably borrowed
    errOut,     \* the write calls made on stderr so far, each a piece of text
    outOut,     \* the write calls made on stdout so far
    sinks,      \* per writer of MultiWriter.writers, the records it was handed
    recs,       \* history: the records logged so far
    nFaults,    \* the failures of format functions, streams and writers so far
    \* ---- the watch thread of start_with_specfile
    fileContent,\* what the specfile holds
    channel,    \* rx: the events the watcher has delivered and the loop has not received
    suffixOk,   \* the extension of the specfile path is "toml"
    wpc,        \* position of start_with_specfile and then of its thread: "setup",
                \* "ensured", "spawned", "watcher", "init" before the initial read,
                \* "recv" in the loop; or where it stopped
    wContent,   \* history: what the last LogSpecification::file call read
    wBefore,    \* history: the store and the marker when that call was made
    nEdits,     \* the writes of the file and the events delivered so far
    wHist,      \* history of start_with_specfile: the file at the call and after
                \* ensure_specfile_is_valid, the initial read, the events received
    \* ---- the duplication decision for one setting and one record level
    qDup, qDupLevel, multiDupl, blackHoleDupl

engineVars == <<phase, origin, input, doc, builder, nOps, lastDefault, bHist, curSpec,
                diags, ctorOk, qLevel, qPath, qResult, reread>>

storeVars == <<store, maxLevel, installed, startPc, wLock, rLock, hpc, hNew,
               versions, returned, em>>

writerVars == <<strategy, duplicate, nSinks, stack, tlBuf, tlBorrowed, errOut, outOut,
                sinks, recs, nFaults>>

watchVars == <<fileContent, suffixOk, channel, wpc, wContent, wBefore, nEdits, wHist>>

duplVars == <<qDup, qDupLevel, multiDupl, blackHoleDupl>>

vars == <<engineVars, storeVars, writerVars, watchVars, duplVars>>

nonEngineVars == <<storeVars, writerVars, watchVars, duplVars>>
nonStoreVars == <<engineVars, writerVars, watchVars, duplVars>>
nonWriterVars == <<engineVars, storeVars, watchVars, duplVars>>
nonWatchVars == <<engineVars, writerVars, duplVars>>
nonDuplVars == <<engineVars, storeVars, writerVars, watchVars>>

-----------------------------------------------------------------------------
(* Levels: log::LevelFilter (Off..Trace) and log::Level (Error..Trace).     *)

Off == 0
Error == 1
Warn == 2
Info == 3
Debug == 4
Trace == 5

LevelFilters == Off..Trace
Levels == Error..Trace

\* LevelFilter::max()
LevelFilterMax == Trace

-----------------------------------------------------------------------------
(* Strings                                                                 *)

\* char::to_lowercase on the letters the inputs use
ToLowerChar(c) ==
    CASE c = "A" -> "a" [] c = "B" -> "b" [] c = "C" -> "c" [] c = "D" -> "d"
      [] c = "E" -> "e" [] c = "F" -> "f" [] c = "G" -> "g" [] c = "I" -> "i"
      [] c = "N" -> "n" [] c = "O" -> "o" [] c = "R" -> "r" [] c = "T" -> "t"
      [] c = "U" -> "u" [] c = "W" -> "w"
      [] OTHER -> c

to_lowercase(s) == [i \in 1..Len(s) |-> ToLowerChar(s[i])]

IsWhitespace(c) == c \in {" ", "\t"}

RECURSIVE TrimStart(_)
TrimStart(s) ==
    IF s = <<>> THEN <<>>
    ELSE IF IsWhitespace(Head(s)) THEN TrimStart(Tail(s)) ELSE s

RECURSIVE TrimEnd(_)
TrimEnd(s) ==
    IF s = <<>> THEN <<>>
    ELSE IF IsWhitespace(s[Len(s)]) THEN TrimEnd(SubSeq(s, 1, Len(s) - 1)) ELSE s

\* str::trim
trim(s) == TrimEnd(TrimStart(s))

\* index of the first occurrence of c in s, 0 if there is none
RECURSIVE FindFrom(_, _, _)
FindFrom(s, c, i) ==
    IF i > Len(s) THEN 0
    ELSE IF s[i] = c THEN i ELSE FindFrom(s, c, i + 1)

find(s, c) == FindFrom(s, c, 1)

\* str::split(c): the pieces between the occurrences of c; never empty:
\* "" gives [""], and a trailing separator gives a trailing "".
RECURSIVE split(_, _)
split(s, c) ==
    LET i == find(s, c)
    IN IF i = 0 THEN <<s>>
       ELSE <<SubSeq(s, 1, i - 1)>> \o split(SubSeq(s, i + 1, Len(s)), c)

\* str::starts_with
starts_with(s, p) == Len(p) <= Len(s) /\ SubSeq(s, 1, Len(p)) = p

RECURSIVE Join(_, _)
Join(ss, sep) ==
    IF ss = <<>> THEN <<>>
    ELSE IF Len(ss) = 1 THEN ss[1]
    ELSE ss[1] \o sep \o Join(Tail(ss), sep)

-----------------------------------------------------------------------------
(* Option<String>, ModuleFilter, LogSpecification                          *)

None == [some |-> FALSE, val |-> <<>>]
Some(s) == [some |-> TRUE, val |-> s]

ModuleFilter(name, lf) == [module_name |-> name, level_filter |-> lf]

LogSpecification(mfs, tf) == [module_filters |-> mfs, textfilter |-> tf]

\* LogSpecification::off(): Default::default()
off == LogSpecification(<<>>, None)

\* the sort key of level_sort: module_name.map(len).unwrap_or(0)
NameLen(mf) == IF mf.module_name.some THEN Len(mf.module_name.val) ELSE 0

MaxOfSet(S) == IF S = {} THEN 0 ELSE CHOOSE m \in S : \A x \in S : x <= m

RECURSIVE SortFrom(_, _)
SortFrom(mfs, l) ==
    IF l < 0 THEN <<>>
    ELSE SelectSeq(mfs, LAMBDA mf : NameLen(mf) = l) \o SortFrom(mfs, l - 1)

\* a mutant of level_sort: it does not sort at all
level_sort_unsorted(mfs) == mfs

\* LevelSort::level_sort: a stable sort by descending length of the name
level_sort(mfs) ==
    SortFrom(mfs, MaxOfSet({NameLen(mfs[i]) : i \in 1..Len(mfs)}))

\* a mutant of max_level: the level of the first rule
max_level_first(spec) ==
    IF spec.module_filters = <<>> THEN Off ELSE spec.module_filters[1].level_filter

\* LogSpecification::max_level
max_level(spec) ==
    MaxOfSet({spec.module_filters[i].level_filter :
                 i \in 1..Len(spec.module_filters)})

RECURSIVE EnabledFrom(_, _, _, _)
EnabledFrom(mfs, i, level, target) ==
    IF i > Len(mfs) THEN FALSE
    ELSE IF mfs[i].module_name.some
            /\ ~starts_with(target, mfs[i].module_name.val)
         THEN EnabledFrom(mfs, i + 1, level, target)
         ELSE level <= mfs[i].level_filter

\* LogSpecification::enabled
enabled(spec, level, target) == EnabledFrom(spec.module_filters, 1, level, target)

-----------------------------------------------------------------------------
(* Regex::new, as far as the patterns of the inputs go: a pattern with an  *)
(* unclosed group does not compile.                                        *)

RECURSIVE ParenDepth(_, _)
ParenDepth(p, d) ==
    IF d < 0 THEN d
    ELSE IF p = <<>> THEN d
    ELSE IF Head(p) = "(" THEN ParenDepth(Tail(p), d + 1)
    ELSE IF Head(p) = ")" THEN ParenDepth(Tail(p), d - 1)
    ELSE ParenDepth(Tail(p), d)

\* a compiler that takes every pattern
RegexNewAny(p) == TRUE

RegexNewOk(p) == ParenDepth(p, 0) = 0

-----------------------------------------------------------------------------
(* parse_level_filter and contains_dash_or_whitespace                      *)

NoLevel == [ok |-> FALSE, lf |-> Off]
OkLevel(l) == [ok |-> TRUE, lf |-> l]

\* level names taken as written, upper case not recognised
parse_level_filter_exact(s) ==
    CASE s = <<"o", "f", "f">> -> OkLevel(Off)
      [] s = <<"e", "r", "r", "o", "r">> -> OkLevel(Error)
      [] s = <<"w", "a", "r", "n">> -> OkLevel(Warn)
      [] s = <<"i", "n", "f", "o">> -> OkLevel(Info)
      [] s = <<"d", "e", "b", "u", "g">> -> OkLevel(Debug)
      [] s = <<"t", "r", "a", "c", "e">> -> OkLevel(Trace)
      [] OTHER -> NoLevel

parse_level_filter(s) ==
    LET t == to_lowercase(s)
    IN CASE t = <<"o", "f", "f">> -> OkLevel(Off)
         [] t = <<"e", "r", "r", "o", "r">> -> OkLevel(Error)
         [] t = <<"w", "a", "r", "n">> -> OkLevel(Warn)
         [] t = <<"i", "n", "f", "o">> -> OkLevel(Info)
         [] t = <<"d", "e", "b", "u", "g">> -> OkLevel(Debug)
         [] t = <<"t", "r", "a", "c", "e">> -> OkLevel(Trace)
         [] OTHER -> NoLevel

\* a check that lets a dash pass
contains_whitespace(s) == find(s, " ") # 0 \/ find(s, "\t") # 0

contains_dash_or_whitespace(s) ==
    find(s, "-") # 0 \/ find(s, " ") # 0 \/ find(s, "\t") # 0

-----------------------------------------------------------------------------
(* LogSpecification::parse                                                 *)

\* What one rule of the list contributes: at most one ModuleFilter (dirs) and
\* at most one diagnostic (errs).
Rule(dirs, errs) == [dirs |-> dirs, errs |-> errs]

ParseRule(raw) ==
    LET s == trim(raw)
        parts == split(s, "=")
        part0 == trim(parts[1])
        part1 == trim(parts[2])
    IN IF s = <<>> THEN Rule(<<>>, <<>>)
       ELSE IF Len(parts) = 1 THEN
            IF contains_dash_or_whitespace(part0) THEN Rule(<<>>, <<"dash_or_whitespace">>)
            ELSE IF parse_level_filter(trim(part0)).ok
                 THEN Rule(<<ModuleFilter(None, parse_level_filter(trim(part0)).lf)>>, <<>>)
                 ELSE Rule(<<ModuleFilter(Some(part0), LevelFilterMax)>>, <<>>)
       ELSE IF Len(parts) = 2 /\ part1 = <<>> THEN
            IF contains_dash_or_whitespace(part0) THEN Rule(<<>>, <<"dash_or_whitespace">>)
            ELSE Rule(<<ModuleFilter(Some(part0), LevelFilterMax)>>, <<>>)
       ELSE IF Len(parts) = 2 THEN
            IF contains_dash_or_whitespace(part0) THEN Rule(<<>>, <<"dash_or_whitespace">>)
            ELSE IF parse_level_filter(trim(part1)).ok
                 THEN Rule(<<ModuleFilter(Some(trim(part0)), parse_level_filter(trim(part1)).lf)>>, <<>>)
                 ELSE Rule(<<>>, <<"unknown_level_filter">>)
       ELSE Rule(<<>>, <<"invalid_part">>)

\* a list of rules that is given up at the first rule with a diagnostic
RECURSIVE ParseRulesUntilError(_)
ParseRulesUntilError(rules) ==
    IF rules = <<>> THEN Rule(<<>>, <<>>)
    ELSE LET r == ParseRule(Head(rules))
             rest == ParseRulesUntilError(Tail(rules))
         IN IF r.errs # <<>> THEN r ELSE Rule(r.dirs \o rest.dirs, r.errs \o rest.errs)

RECURSIVE ParseRules(_)
ParseRules(rules) ==
    IF rules = <<>> THEN Rule(<<>>, <<>>)
    ELSE LET r == ParseRule(Head(rules))
             rest == ParseRules(Tail(rules))
         IN Rule(r.dirs \o rest.dirs, r.errs \o rest.errs)

\* The result of a constructor: Ok(spec) when ok, else Err; an Err of the
\* Parse variant carries the diagnostics and a specification (hasSpec).
Result(ok, hasSpec, spec, errs) ==
    [ok |-> ok, hasSpec |-> hasSpec, spec |-> spec, errs |-> errs]

\* a parse that looks at the first two parts only, however many '/' there are
parse_first_two_parts(text) ==
    LET parts == split(text, "/")
        mods == ParseRules(split(parts[1], ","))
        hasFilter == Len(parts) >= 2
        filterOk == hasFilter /\ RegexNewOk(parts[2])
        errs == mods.errs \o (IF hasFilter /\ ~filterOk THEN <<"invalid_regex">> ELSE <<>>)
        logspec == LogSpecification(level_sort(mods.dirs),
                                    IF filterOk THEN Some(parts[2]) ELSE None)
    IN Result(errs = <<>>, TRUE, logspec, errs)

parse(text) ==
    LET parts == split(text, "/")
        mods == ParseRules(split(parts[1], ","))
        hasFilter == Len(parts) >= 2
        filterOk == hasFilter /\ RegexNewOk(parts[2])
        errs == mods.errs \o (IF hasFilter /\ ~filterOk THEN <<"invalid_regex">> ELSE <<>>)
        logspec == LogSpecification(level_sort(mods.dirs),
                                    IF filterOk THEN Some(parts[2]) ELSE None)
    IN IF Len(parts) >= 3 THEN Result(FALSE, TRUE, off, <<"too_many_slashes">>)
       ELSE Result(errs = <<>>, TRUE, logspec, errs)

-----------------------------------------------------------------------------
(* LogSpecification::from_toml.  The file content is taken as what          *)
(* toml::from_str makes of it: either no LogSpecFileFormat at all           *)
(* (wellFormed = FALSE: not TOML, or no [modules] table), or the three      *)
(* fields, the modules being a BTreeMap, which iterates in key order.       *)

\* the characters of the inputs, in the order of their code points
CharOrder ==
    <<"\t", " ", "'", "(", ")", "*", ",", "-", ".", "/", "1", "2", ":", "=",
      "A", "I", "N", "R", "W",
      "a", "b", "c", "d", "e", "f", "g", "h", "i", "k", "l", "m", "n", "o", "r",
      "t", "u", "w", "x", "z">>

CharCode(c) == CHOOSE i \in 1..Len(CharOrder) : CharOrder[i] = c

\* String's Ord: lexicographic by code point
RECURSIVE StrLess(_, _)
StrLess(a, b) ==
    IF b = <<>> THEN FALSE
    ELSE IF a = <<>> THEN TRUE
    ELSE IF Head(a) = Head(b) THEN StrLess(Tail(a), Tail(b))
    ELSE CharCode(Head(a)) < CharCode(Head(b))

\* BTreeMap<String, String>::into_iter of a set of [k, v] entries with
\* pairwise distinct keys
RECURSIVE BTreeIter(_)
BTreeIter(entries) ==
    IF entries = {} THEN <<>>
    ELSE LET m == CHOOSE x \in entries : \A y \in entries \ {x} : StrLess(x.k, y.k)
         IN <<m>> \o BTreeIter(entries \ {m})

LogSpecFileFormat(wf, gl, gp, mods) ==
    [wellFormed |-> wf, global_level |-> gl, global_pattern |-> gp, modules |-> mods]

NoDoc == LogSpecFileFormat(FALSE, None, None, {})

from_toml(d) ==
    LET ms == BTreeIter(d.modules)
        glOk == ~d.global_level.some \/ parse_level_filter(d.global_level.val).ok
        msOk == \A i \in 1..Len(ms) : parse_level_filter(ms[i].v).ok
        module_filters ==
            (IF d.global_level.some
             THEN <<ModuleFilter(None, parse_level_filter(d.global_level.val).lf)>>
             ELSE <<>>)
            \o [i \in 1..Len(ms) |->
                   ModuleFilter(Some(ms[i].k), parse_level_filter(ms[i].v).lf)]
        patOk == ~d.global_pattern.some \/ RegexNewOk(d.global_pattern.val)
        logspec == LogSpecification(level_sort(module_filters),
                                    IF d.global_pattern.some /\ patOk
                                    THEN d.global_pattern ELSE None)
    IN IF ~d.wellFormed THEN Result(FALSE, FALSE, off, <<"toml">>)
       ELSE IF ~glOk \/ ~msOk THEN Result(FALSE, FALSE, off, <<"unknown_level_filter">>)
       ELSE IF ~patOk THEN Result(FALSE, TRUE, logspec, <<"invalid_regex">>)
       ELSE Result(TRUE, TRUE, logspec, <<>>)

-----------------------------------------------------------------------------
(* LogSpecification::to_toml.  What it writes is taken as what              *)
(* toml::from_str makes of it: the key global_level when the line is not a  *)
(* comment, never the key global_pattern (that line is always a comment),   *)
(* and under [modules] one key per named rule; a key written twice is not   *)
(* TOML.                                                                    *)

\* LevelFilter's Display
LevelFilterToString(lf) ==
    CASE lf = Off -> <<"O", "F", "F">>
      [] lf = Error -> <<"E", "R", "R", "O", "R">>
      [] lf = Warn -> <<"W", "A", "R", "N">>
      [] lf = Info -> <<"I", "N", "F", "O">>
      [] lf = Debug -> <<"D", "E", "B", "U", "G">>
      [] OTHER -> <<"T", "R", "A", "C", "E">>

\* the lines written under [modules]: one per named rule, in rule order
ModuleLines(spec) ==
    LET named == SelectSeq(spec.module_filters, LAMBDA mf : mf.module_name.some)
    IN [i \in 1..Len(named) |->
           [k |-> named[i].module_name.val,
            v |-> to_lowercase(LevelFilterToString(named[i].level_filter))]]

\* what was written once the [modules] line and n lines under it are out
TomlUpTo(spec, n) ==
    LET mfs == spec.module_filters
        lines == SubSeq(ModuleLines(spec), 1, n)
        distinctKeys == \A i, j \in 1..Len(lines) : lines[i].k = lines[j].k => i = j
        global_level ==
            IF mfs # <<>> /\ ~mfs[Len(mfs)].module_name.some
            THEN Some(to_lowercase(LevelFilterToString(mfs[Len(mfs)].level_filter)))
            ELSE None
    IN LogSpecFileFormat(distinctKeys, global_level, None,
                         {lines[i] : i \in 1..Len(lines)})

to_toml(spec) == TomlUpTo(spec, Len(ModuleLines(spec)))

-----------------------------------------------------------------------------
(* LogSpecBuilder: a HashMap<Option<String>, LevelFilter>, here the set of  *)
(* its [key, lf] entries.                                                   *)

\* HashMap::insert
MapInsert(m, key, lf) == {e \in m : e.key # key} \cup {[key |-> key, lf |-> lf]}

\* HashMap::remove
MapRemove(m, key) == {e \in m : e.key # key}

\* LogSpecBuilder::new
BuilderNewMap == MapInsert({}, None, Off)

RECURSIVE from_module_filters(_)
from_module_filters(mfs) ==
    IF mfs = <<>> THEN {}
    ELSE MapInsert(from_module_filters(SubSeq(mfs, 1, Len(mfs) - 1)),
                   mfs[Len(mfs)].module_name, mfs[Len(mfs)].level_filter)

\* the orders in which HashMap::into_iter may yield the entries: all of them
IterOrders(m) ==
    {o \in [1..Cardinality(m) -> m] : \A i, j \in 1..Cardinality(m) : i # j => o[i] # o[j]}

\* a mutant of into_vec_module_filter: the entries are left in iteration order
into_vec_module_filter_unsorted(o) ==
    [i \in 1..Len(o) |-> ModuleFilter(o[i].key, o[i].lf)]

\* IntoVecModuleFilter::into_vec_module_filter, for one iteration order
into_vec_module_filter(o) ==
    level_sort([i \in 1..Len(o) |-> ModuleFilter(o[i].key, o[i].lf)])

-----------------------------------------------------------------------------
(* The inputs.                                                             *)

MaxRules == 2
MaxModules == 2
MaxOps == 3

\* rule texts a DSL string is made of
RuleTexts ==
    { <<"i", "n", "f", "o">>,
      <<"W", "A", "R", "N">>,
      <<"a">>,
      <<"a", "b", "=", "e", "r", "r", "o", "r">>,
      <<" ", "a", " ", "=", " ", "d", "e", "b", "u", "g", " ">>,
      <<"=", "d", "e", "b", "u", "g">>,
      <<"b", "=">>,
      <<"a", "=", "o", "f", "f", "=", "x">>,
      <<"a", "-", "b", "=", "i", "n", "f", "o">>,
      <<"a", "=", "x">>,
      <<>> }

\* what may follow the rules: nothing, a pattern, a pattern that does not
\* compile, two '/'
FilterTexts ==
    { <<>>, <<"/", "a", ".", "c">>, <<"/", "(">>, <<"/", "a", "/", "b">> }

RuleLists == UNION {[1..n -> RuleTexts] : n \in 0..MaxRules}

\* the inputs of the tests parse_logging_spec_valid,
\* parse_logging_spec_invalid_crate and parse_logging_spec_invalid_crate_with_dash
ExampleValid ==
    <<"c", "r", "a", "t", "e", "1", ":", ":", "m", "o", "d", "1", "=", "e",
      "r", "r", "o", "r", ",", "c", "r", "a", "t", "e", "1", ":", ":",
      "m", "o", "d", "2", ",", "c", "r", "a", "t", "e", "2", "=", "d",
      "e", "b", "u", "g">>

ExampleInvalidCrate ==
    <<"c", "r", "a", "t", "e", "1", ":", ":", "m", "o", "d", "1", "=", "w",
      "a", "r", "n", "=", "i", "n", "f", "o", ",", "c", "r", "a", "t",
      "e", "2", "=", "d", "e", "b", "u", "g">>

ExampleDash ==
    <<"k", "a", "r", "l", "-", "h", "e", "i", "n", "z", ":", ":", "m", "o",
      "d", "1", "=", "w", "a", "r", "n", ",", "c", "r", "a", "t", "e",
      "2", "=", "d", "e", "b", "u", "g", "/", "a", ".", "c">>

ExampleInputs == {ExampleValid, ExampleInvalidCrate, ExampleDash}

ParseInputs ==
    {Join(rs, <<",">>) \o f : rs \in RuleLists, f \in FilterTexts} \cup ExampleInputs

\* module names of builder calls and file entries
ModuleNames == { <<>>, <<"a">>, <<"a", "b">>, <<"b", "a">> }

\* target modules of enabled()
TargetModules == { <<>>, <<"a">>, <<"a", "b">>, <<"a", "b", "c">>, <<"b">>, <<"c">> }

LevelTexts ==
    { <<"e", "r", "r", "o", "r">>, <<"I", "n", "f", "o">>, <<"d", "e", "b", "u", "g">>,
      <<"x">> }

PatternTexts == { <<"a", ".", "c">>, <<"(">> }

\* the text filters a builder is finished with: none, or a compiled pattern
TextFilters == {None, Some(<<"a", ".", "c">>)}

\* the slices given to from_module_filters
FilterLists ==
    UNION {[1..n -> {ModuleFilter(k, lf) : k \in {None, Some(<<>>), Some(<<"a">>)},
                                           lf \in {Error, Debug}}] : n \in 0..MaxRules}

\* the level of the last nameless entry of a slice
RECURSIVE LastNameless(_)
LastNameless(mfs) ==
    IF mfs = <<>> THEN None
    ELSE IF ~mfs[Len(mfs)].module_name.some THEN Some(mfs[Len(mfs)].level_filter)
    ELSE LastNameless(SubSeq(mfs, 1, Len(mfs) - 1))

\* the level of the last entry of a slice for each module name
RECURSIVE LastNamed(_)
LastNamed(mfs) ==
    IF mfs = <<>> THEN [n \in ModuleNames |-> None]
    ELSE IF mfs[Len(mfs)].module_name.some
         THEN [LastNamed(SubSeq(mfs, 1, Len(mfs) - 1))
                 EXCEPT ![mfs[Len(mfs)].module_name.val] = Some(mfs[Len(mfs)].level_filter)]
         ELSE LastNamed(SubSeq(mfs, 1, Len(mfs) - 1))

\* no builder yet
NoBuilderHist ==
    [lastModule |-> [n \in ModuleNames |-> None], earlier |-> None]

ModuleTables ==
    {m \in SUBSET [k : ModuleNames, v : LevelTexts] :
        /\ Cardinality(m) <= MaxModules
        /\ \A x, y \in m : x.k = y.k => x = y}

TomlDocs ==
    {NoDoc} \cup
    {LogSpecFileFormat(TRUE, gl, gp, m) :
        gl \in {None} \cup {Some(l) : l \in LevelTexts},
        gp \in {None} \cup {Some(q) : q \in PatternTexts},
        m \in ModuleTables}

-----------------------------------------------------------------------------
(* The specification engine as a state machine: one constructor call, then  *)
(* one enabled() call on what it produced.                                  *)

EngineInit ==
    /\ phase = "start"
    /\ origin = "none"
    /\ input = <<>>
    /\ doc = NoDoc
    /\ builder = {}
    /\ nOps = 0
    /\ lastDefault = None
    /\ bHist = NoBuilderHist
    /\ curSpec = off
    /\ diags = <<>>
    /\ ctorOk = TRUE
    /\ qLevel = Error
    /\ qPath = <<>>
    /\ qResult = FALSE
    /\ reread = Result(FALSE, FALSE, off, <<>>)

Produced(r) ==
    /\ curSpec' = r.spec
    /\ diags' = r.errs
    /\ ctorOk' = r.ok
    /\ phase' = IF r.hasSpec THEN "built" ELSE "failed"

\* LogSpecification::parse(text)
Parse ==
    /\ phase = "start"
    /\ \E text \in ParseInputs :
        /\ input' = text
        /\ Produced(parse(text))
    /\ origin' = "parse"
    /\ UNCHANGED <<doc, builder, nOps, lastDefault, bHist, qLevel, qPath, qResult, reread>>
    /\ UNCHANGED nonEngineVars

\* LogSpecification::from_toml(s)
FromToml ==
    /\ phase = "start"
    /\ \E d \in TomlDocs :
        /\ doc' = d
        /\ Produced(from_toml(d))
    /\ origin' = "from_toml"
    /\ UNCHANGED <<input, builder, nOps, lastDefault, bHist, qLevel, qPath, qResult, reread>>
    /\ UNCHANGED nonEngineVars

\* LogSpecBuilder::new()
BuilderNew ==
    /\ phase = "start"
    /\ builder' = BuilderNewMap
    /\ lastDefault' = Some(Off)
    /\ bHist' = NoBuilderHist
    /\ phase' = "building"
    /\ origin' = "builder"
    /\ UNCHANGED <<input, doc, nOps, curSpec, diags, ctorOk, qLevel, qPath, qResult, reread>>
    /\ UNCHANGED nonEngineVars

\* LogSpecBuilder::from_module_filters(mfs); LogSpecification::default(lf)
\* calls it with one nameless entry
BuilderFromModuleFilters ==
    /\ phase = "start"
    /\ \E mfs \in FilterLists :
        /\ builder' = from_module_filters(mfs)
        /\ lastDefault' = LastNameless(mfs)
        /\ bHist' = [NoBuilderHist EXCEPT !.lastModule = LastNamed(mfs)]
    /\ phase' = "building"
    /\ origin' = "builder"
    /\ UNCHANGED <<input, doc, nOps, curSpec, diags, ctorOk, qLevel, qPath, qResult, reread>>
    /\ UNCHANGED nonEngineVars

\* LogSpecBuilder::default(lf)
BuilderDefault ==
    /\ phase = "building"
    /\ nOps < MaxOps
    /\ \E lf \in LevelFilters :
        /\ builder' = MapInsert(builder, None, lf)
        /\ lastDefault' = Some(lf)
    /\ nOps' = nOps + 1
    /\ UNCHANGED <<bHist, phase, origin, input, doc, curSpec, diags, ctorOk, qLevel, qPath, qResult, reread>>
    /\ UNCHANGED nonEngineVars

\* LogSpecBuilder::module(module_name, lf)
BuilderModule ==
    /\ phase = "building"
    /\ nOps < MaxOps
    /\ \E name \in ModuleNames, lf \in {Off, Error, Debug} :
        /\ builder' = MapInsert(builder, Some(name), lf)
        /\ bHist' = [bHist EXCEPT !.lastModule[name] = Some(lf)]
    /\ nOps' = nOps + 1
    /\ UNCHANGED <<lastDefault, phase, origin, input, doc, curSpec, diags, ctorOk, qLevel, qPath, qResult, reread>>
    /\ UNCHANGED nonEngineVars

\* LogSpecBuilder::remove(module_name)
BuilderRemove ==
    /\ phase = "building"
    /\ nOps < MaxOps
    /\ \E name \in ModuleNames :
        /\ builder' = MapRemove(builder, Some(name))
        /\ bHist' = [bHist EXCEPT !.lastModule[name] = None]
    /\ nOps' = nOps + 1
    /\ UNCHANGED <<lastDefault, phase, origin, input, doc, curSpec, diags, ctorOk, qLevel, qPath, qResult, reread>>
    /\ UNCHANGED nonEngineVars

\* LogSpecBuilder::build(), finalize(), build_with_textfilter(tf) and
\* finalize_with_textfilter(tf): tf is a compiled Regex or nothing
BuilderBuild ==
    /\ phase = "building"
    /\ \E o \in IterOrders(builder), tf \in TextFilters :
        curSpec' = LogSpecification(into_vec_module_filter(o), tf)
    /\ phase' = "built"
    /\ UNCHANGED <<origin, input, doc, builder, nOps, lastDefault, bHist, diags, ctorOk,
                   qLevel, qPath, qResult, reread>>
    /\ UNCHANGED nonEngineVars

\* LogSpecBuilder::build() and build_with_textfilter(tf) take &self and work
\* on a clone of the map: the program keeps the specification and goes on
\* with the builder
BuilderBuildKeep ==
    /\ phase = "building"
    /\ ~bHist.earlier.some
    /\ \E o \in IterOrders(builder), tf \in TextFilters :
        /\ curSpec' = LogSpecification(into_vec_module_filter(o), tf)
        /\ bHist' = [bHist EXCEPT !.earlier =
                        Some([spec |-> curSpec', tf |-> tf,
                              lastModule |-> bHist.lastModule, lastDefault |-> lastDefault])]
    /\ UNCHANGED <<phase, origin, input, doc, builder, nOps, lastDefault, diags, ctorOk,
                   qLevel, qPath, qResult, reread>>
    /\ UNCHANGED nonEngineVars

\* LogSpecification::enabled(level, target_module)
Enabled ==
    /\ phase = "built"
    /\ \E level \in Levels, target \in TargetModules :
        /\ qLevel' = level
        /\ qPath' = target
        /\ qResult' = enabled(curSpec, level, target)
    /\ phase' = "evaluated"
    /\ UNCHANGED <<origin, input, doc, builder, nOps, lastDefault, bHist, curSpec, diags, ctorOk,
                   reread>>
    /\ UNCHANGED nonEngineVars

\* LogSpecification::to_toml into a buffer, then from_toml of what was written
ToTomlFromToml ==
    /\ phase = "built"
    /\ reread' = from_toml(to_toml(curSpec))
    /\ phase' = "reread"
    /\ UNCHANGED <<origin, input, doc, builder, nOps, lastDefault, bHist, curSpec, diags, ctorOk,
                   qLevel, qPath, qResult>>
    /\ UNCHANGED nonEngineVars

EngineNext ==
    \/ Parse
    \/ FromToml
    \/ BuilderNew
    \/ BuilderFromModuleFilters
    \/ BuilderDefault
    \/ BuilderModule
    \/ BuilderRemove
    \/ BuilderBuild
    \/ Enabled
    \/ ToTomlFromToml


-----------------------------------------------------------------------------
(* The specification store: Logger::start puts the specification into an    *)
(* Arc<RwLock<..>>, installs the logger and sets the log crate's maximum    *)
(* level; the owner of the ReconfigurationHandle replaces the               *)
(* specification with LogSpecification::reconfigure; emitting threads pass  *)
(* the log macro's check of the maximum level and are then evaluated.       *)

MaxReplace == 2

Emitters == {"e1", "e2"}

\* the specifications the program is started with and reconfigured to
StoreSpecs ==
    { parse(<<"w", "a", "r", "n", ",", "a", "b", "=", "d", "e", "b", "u", "g", "/", "a", ".", "c">>).spec,
      parse(<<"a", "=", "e", "r", "r", "o", "r">>).spec,
      parse(<<"i", "n", "f", "o", "/", "c">>).spec }

\* the events the threads emit
Events ==
    { [level |-> Debug, target |-> <<"a", "b">>],
      [level |-> Info, target |-> <<"c">>] }

EmIdle ==
    [pc |-> "idle", level |-> Error, target |-> <<>>, max |-> Off, rules |-> <<>>,
     filter |-> None, fromM |-> 0, fromE |-> 0, upTo |-> 0, decision |-> FALSE]

StoreInitWith(s) ==
    /\ store = s
    /\ maxLevel = Off
    /\ installed = FALSE
    /\ startPc = "new"
    /\ wLock = FALSE
    /\ rLock = {}
    /\ hpc = "idle"
    /\ hNew = off
    /\ versions = <<off>>
    /\ returned = 1
    /\ em = [t \in Emitters |-> EmIdle]

\* the store of a run that never starts a logger
StoreQuiet == StoreInitWith(off)

\* Logger::with(logspec)
StoreInit == \E s \in StoreSpecs : StoreInitWith(s)

\* Logger::start: log::set_boxed_logger(Box::new(flexi_logger))
StartSetBoxedLogger ==
    /\ startPc = "new"
    /\ installed' = TRUE
    /\ versions' = Append(versions, store)
    /\ startPc' = "boxed"
    /\ UNCHANGED <<store, maxLevel, wLock, rLock, hpc, hNew, returned, em>>
    /\ UNCHANGED nonStoreVars

\* Logger::start: log::set_max_level(max), max being self.spec.max_level()
StartSetMaxLevel ==
    /\ startPc = "boxed"
    /\ maxLevel' = max_level(store)
    /\ returned' = Len(versions)
    /\ startPc' = "done"
    /\ UNCHANGED <<store, installed, wLock, rLock, hpc, hNew, versions, em>>
    /\ UNCHANGED nonStoreVars

\* ReconfigurationHandle::set_new_spec(new_spec): takes the write lock
AcquireWrite ==
    /\ startPc = "done"
    /\ hpc = "idle"
    /\ Len(versions) < MaxReplace + 2
    /\ ~wLock
    /\ rLock = {}
    /\ \E s \in StoreSpecs :
        /\ hNew' = s
        /\ versions' = Append(versions, s)
    /\ wLock' = TRUE
    /\ hpc' = "module_filters"
    /\ UNCHANGED <<store, maxLevel, installed, startPc, rLock, returned, em>>
    /\ UNCHANGED nonStoreVars

\* ReconfigurationHandle::set_new_spec(new_spec) with the specification that
\* parse or from_toml has returned
SetNewSpecBuilt ==
    /\ startPc = "done"
    /\ hpc = "idle"
    /\ phase = "built"
    /\ Len(versions) < MaxReplace + 2
    /\ ~wLock
    /\ rLock = {}
    /\ hNew' = curSpec
    /\ versions' = Append(versions, curSpec)
    /\ wLock' = TRUE
    /\ hpc' = "module_filters"
    /\ UNCHANGED <<store, maxLevel, installed, startPc, rLock, returned, em>>
    /\ UNCHANGED nonStoreVars

\* reconfigure: self.module_filters = other_spec.module_filters
ReconfigureModuleFilters ==
    /\ hpc = "module_filters"
    /\ store' = [store EXCEPT !.module_filters = hNew.module_filters]
    /\ hpc' = "textfilter"
    /\ UNCHANGED <<maxLevel, installed, startPc, wLock, rLock, hNew, versions, returned, em>>
    /\ UNCHANGED nonStoreVars

\* a mutant of ReconfigureTextfilter: the text filter is not taken over
ReconfigureTextfilterSkipped ==
    /\ hpc = "textfilter"
    /\ hpc' = "max_level"
    /\ UNCHANGED <<store, maxLevel, installed, startPc, wLock, rLock, hNew, versions, returned, em>>
    /\ UNCHANGED nonStoreVars

\* reconfigure: self.textfilter = other_spec.textfilter
ReconfigureTextfilter ==
    /\ hpc = "textfilter"
    /\ store' = [store EXCEPT !.textfilter = hNew.textfilter]
    /\ hpc' = "max_level"
    /\ UNCHANGED <<maxLevel, installed, startPc, wLock, rLock, hNew, versions, returned, em>>
    /\ UNCHANGED nonStoreVars

\* a mutant of ReconfigureMaxLevel: the marker is left as it was
ReconfigureMaxLevelSkipped ==
    /\ hpc = "max_level"
    /\ hpc' = "release"
    /\ UNCHANGED <<store, maxLevel, installed, startPc, wLock, rLock, hNew, versions, returned, em>>
    /\ UNCHANGED nonStoreVars

\* reconfigure: log::set_max_level(self.max_level())
ReconfigureMaxLevel ==
    /\ hpc = "max_level"
    /\ maxLevel' = max_level(store)
    /\ hpc' = "release"
    /\ UNCHANGED <<store, installed, startPc, wLock, rLock, hNew, versions, returned, em>>
    /\ UNCHANGED nonStoreVars

\* set_new_spec returns: the write guard is dropped
ReleaseWrite ==
    /\ hpc = "release"
    /\ wLock' = FALSE
    /\ returned' = Len(versions)
    /\ hpc' = "idle"
    /\ UNCHANGED <<store, maxLevel, installed, startPc, rLock, hNew, versions, em>>
    /\ UNCHANGED nonStoreVars

\* the log macro: lvl <= log::max_level(), read without any lock
EmitReadMarker(t) ==
    /\ em[t].pc = "idle"
    /\ \E e \in Events :
        em' = [em EXCEPT ![t] = [EmIdle EXCEPT !.pc = "macro", !.level = e.level,
                                               !.target = e.target, !.max = maxLevel,
                                               !.fromM = returned,
                                               !.upTo = Len(versions)]]
    /\ UNCHANGED <<store, maxLevel, installed, startPc, wLock, rLock, hpc, hNew, versions, returned>>
    /\ UNCHANGED nonStoreVars

\* the log macro: the level is above the maximum level, nothing is logged
EmitDropAtMarker(t) ==
    /\ em[t].pc = "macro"
    /\ ~(em[t].level <= em[t].max)
    /\ em' = [em EXCEPT ![t].pc = "done", ![t].decision = FALSE]
    /\ UNCHANGED <<store, maxLevel, installed, startPc, wLock, rLock, hpc, hNew, versions, returned>>
    /\ UNCHANGED nonStoreVars

\* evaluate: the shared lock is taken
EmitAcquireRead(t) ==
    /\ em[t].pc = "macro"
    /\ em[t].level <= em[t].max
    /\ installed
    /\ ~wLock
    /\ rLock' = rLock \cup {t}
    /\ em' = [em EXCEPT ![t].pc = "locked", ![t].fromE = returned]
    /\ UNCHANGED <<store, maxLevel, installed, startPc, wLock, hpc, hNew, versions, returned>>
    /\ UNCHANGED nonStoreVars

\* evaluate: enabled() walks the module filters
EmitReadModuleFilters(t) ==
    /\ em[t].pc = "locked"
    /\ em' = [em EXCEPT ![t].pc = "rules", ![t].rules = store.module_filters]
    /\ UNCHANGED <<store, maxLevel, installed, startPc, wLock, rLock, hpc, hNew, versions, returned>>
    /\ UNCHANGED nonStoreVars

\* evaluate: text_filter() is read
EmitReadTextfilter(t) ==
    /\ em[t].pc = "rules"
    /\ em' = [em EXCEPT ![t].pc = "filter", ![t].filter = store.textfilter]
    /\ UNCHANGED <<store, maxLevel, installed, startPc, wLock, rLock, hpc, hNew, versions, returned>>
    /\ UNCHANGED nonStoreVars

\* evaluate returns: the read guard is dropped
EmitReleaseRead(t) ==
    /\ em[t].pc = "filter"
    /\ rLock' = rLock \ {t}
    /\ em' = [em EXCEPT ![t].pc = "done",
                        ![t].decision = EnabledFrom(em[t].rules, 1, em[t].level, em[t].target),
                        ![t].upTo = Len(versions)]
    /\ UNCHANGED <<store, maxLevel, installed, startPc, wLock, hpc, hNew, versions, returned>>
    /\ UNCHANGED nonStoreVars

\* the log call returns
EmitReturn(t) ==
    /\ em[t].pc = "done"
    /\ em' = [em EXCEPT ![t] = EmIdle]
    /\ UNCHANGED <<store, maxLevel, installed, startPc, wLock, rLock, hpc, hNew, versions, returned>>
    /\ UNCHANGED nonStoreVars

StoreNext ==
    \/ StartSetBoxedLogger
    \/ StartSetMaxLevel
    \/ AcquireWrite
    \/ ReconfigureModuleFilters
    \/ ReconfigureTextfilter
    \/ ReconfigureMaxLevel
    \/ ReleaseWrite
    \/ \E t \in Emitters :
        \/ EmitReadMarker(t)
        \/ EmitDropAtMarker(t)
        \/ EmitAcquireRead(t)
        \/ EmitReadModuleFilters(t)
        \/ EmitReadTextfilter(t)
        \/ EmitReleaseRead(t)
        \/ EmitReturn(t)


-----------------------------------------------------------------------------
(* The writer dispatch.  A format function writes the head of the line,    *)
(* renders the record's arguments, which may log (nested calls of          *)
(* PrimaryWriter::write on the same thread), and writes the tail of the    *)
(* line.  It may fail, and so may every write on a stream or a writer.     *)

MaxRecords == 2
MaxDepth == 1
MaxSinks == 2
MaxFaults == 1

Duplicates == {"None", "Error", "Warn", "Info", "Debug", "Trace", "All"}

\* the settings and the record levels of the runs of the writer dispatch
WriterDuplicates == {"None", "Warn", "All"}
WriterLevels == {Error, Info}

\* a mutant of DuplMulti: Duplicate::Warn compares with < instead of <=
DuplMultiStrict(dup, level) ==
    CASE dup = "Error" -> level = Error
      [] dup = "Warn" -> level < Warn
      [] dup = "Info" -> level <= Info
      [] dup = "Debug" -> level <= Debug
      [] dup \in {"Trace", "All"} -> TRUE
      [] dup = "None" -> FALSE

\* MultiWriter::write: let dupl = match self.duplicate {..}
DuplMulti(dup, level) ==
    CASE dup = "Error" -> level = Error
      [] dup = "Warn" -> level <= Warn
      [] dup = "Info" -> level <= Info
      [] dup = "Debug" -> level <= Debug
      [] dup \in {"Trace", "All"} -> TRUE
      [] dup = "None" -> FALSE

\* BlackHoleWriter::write: let dupl = match self.duplicate {..}
DuplBlackHole(dup, level) ==
    CASE dup = "Error" -> level = Error
      [] dup = "Warn" -> level <= Warn
      [] dup = "Info" -> level <= Info
      [] dup = "Debug" -> level <= Debug
      [] dup \in {"Trace", "All"} -> TRUE
      [] dup = "None" -> FALSE

\* the pieces of text of record r
Head_(r) == [rec |-> r, part |-> "head"]
Tail_(r) == [rec |-> r, part |-> "tail"]
Newline(r) == [rec |-> r, part |-> "nl"]

\* the line that write_err prints when the call for record r met a failure
Diagnostic(r) == [rec |-> r, part |-> "diag"]

Frame(r) == [rec |-> r, pc |-> "start", own |-> "none", tmp |-> <<>>, sink |-> 1,
             res |-> "ok", after |-> "ret"]

Rec(level, parent) ==
    [level |-> level, parent |-> parent, dupl |-> "undecided", buffered |-> FALSE,
     fmtErr |-> FALSE, ioErr |-> FALSE, failedSink |-> 0, result |-> "running",
     nFormat |-> 0]

WriterInitWith(st, dup, n) ==
    /\ strategy = st
    /\ duplicate = dup
    /\ nSinks = n
    /\ stack = <<>>
    /\ tlBuf = <<>>
    /\ tlBorrowed = FALSE
    /\ errOut = <<>>
    /\ outOut = <<>>
    /\ sinks = [i \in 1..n |-> <<>>]
    /\ recs = <<>>
    /\ nFaults = 0

\* the writer of a run that logs nothing
WriterQuiet == WriterInitWith("stderr", "None", 0)

\* PrimaryWriter::stderr, ::stdout, ::multi, ::black_hole
WriterInit ==
    \/ \E st \in {"stderr", "stdout"} : WriterInitWith(st, "None", 0)
    \/ \E dup \in WriterDuplicates, n \in 1..MaxSinks : WriterInitWith("multi", dup, n)
    \/ \E dup \in WriterDuplicates : WriterInitWith("blackhole", dup, 0)

Top == stack[Len(stack)]
Cur == Top.rec
SetTop(f) == [stack EXCEPT ![Len(stack)] = f]
Buffered == strategy \in {"stderr", "stdout", "multi"}

\* a log call that no formatter triggered
LogCall ==
    /\ stack = <<>>
    /\ Len(recs) < MaxRecords
    /\ \E level \in WriterLevels : recs' = Append(recs, Rec(level, 0))
    /\ stack' = <<Frame(Len(recs) + 1)>>
    /\ UNCHANGED <<strategy, duplicate, nSinks, tlBuf, tlBorrowed, errOut, outOut, sinks,
                 nFaults>>
    /\ UNCHANGED nonWriterVars

\* a log call made while the format function renders the record's arguments
NestedLogCall ==
    /\ stack # <<>>
    /\ Top.pc \in {"nested", "d_nested"}
    /\ Len(stack) < MaxDepth + 1
    /\ Len(recs) < MaxRecords
    /\ \E level \in WriterLevels : recs' = Append(recs, Rec(level, Cur))
    /\ stack' = Append(stack, Frame(Len(recs) + 1))
    /\ UNCHANGED <<strategy, duplicate, nSinks, tlBuf, tlBorrowed, errOut, outOut, sinks,
                 nFaults>>
    /\ UNCHANGED nonWriterVars

\* a mutant of Dispatch: MultiWriter::write and BlackHoleWriter::write format
\* the record for stderr whatever dupl says
DispatchAlwaysFormats ==
    /\ stack # <<>>
    /\ Top.pc = "start"
    /\ LET dupl == IF strategy = "multi" THEN DuplMulti(duplicate, recs[Cur].level)
                   ELSE IF strategy = "blackhole" THEN DuplBlackHole(duplicate, recs[Cur].level)
                   ELSE FALSE
           next == IF strategy = "blackhole" THEN "d_head" ELSE "borrow"
       IN /\ stack' = SetTop([Top EXCEPT !.pc = next])
          /\ recs' = [recs EXCEPT ![Cur].dupl =
                        IF strategy \in {"multi", "blackhole"}
                        THEN (IF dupl THEN "yes" ELSE "no") ELSE "undecided",
                                  ![Cur].buffered = (next = "borrow")]
    /\ UNCHANGED <<strategy, duplicate, nSinks, tlBuf, tlBorrowed, errOut, outOut, sinks,
                 nFaults>>
    /\ UNCHANGED nonWriterVars

\* PrimaryWriter::write: match *self; StdErrWriter::write and
\* StdOutWriter::write call write_buffered, MultiWriter::write and
\* BlackHoleWriter::write compute dupl
Dispatch ==
    /\ stack # <<>>
    /\ Top.pc = "start"
    /\ LET dupl == IF strategy = "multi" THEN DuplMulti(duplicate, recs[Cur].level)
                   ELSE IF strategy = "blackhole" THEN DuplBlackHole(duplicate, recs[Cur].level)
                   ELSE FALSE
           next == CASE strategy \in {"stderr", "stdout"} -> "borrow"
                     [] strategy = "multi" -> IF dupl THEN "borrow" ELSE "sinks"
                     [] strategy = "blackhole" -> IF dupl THEN "d_head" ELSE "ret"
       IN /\ stack' = SetTop([Top EXCEPT !.pc = next])
          /\ recs' = [recs EXCEPT ![Cur].dupl =
                        IF strategy \in {"multi", "blackhole"}
                        THEN (IF dupl THEN "yes" ELSE "no") ELSE "undecided",
                                  ![Cur].buffered = (next = "borrow")]
    /\ UNCHANGED <<strategy, duplicate, nSinks, tlBuf, tlBorrowed, errOut, outOut, sinks,
                 nFaults>>
    /\ UNCHANGED nonWriterVars

\* a mutant of TryBorrowMut: the thread-local buffer is used even when it is
\* already borrowed
TryBorrowMutAlways ==
    /\ stack # <<>>
    /\ Top.pc = "borrow"
    /\ tlBorrowed' = TRUE
    /\ stack' = SetTop([Top EXCEPT !.pc = "fmt_head", !.own = "tl"])
    /\ UNCHANGED <<strategy, duplicate, nSinks, tlBuf, errOut, outOut, sinks, recs,
                 nFaults>>
    /\ UNCHANGED nonWriterVars

\* write_buffered: match tl_buf.try_borrow_mut(); Err(_) allocates tmp_buf
TryBorrowMut ==
    /\ stack # <<>>
    /\ Top.pc = "borrow"
    /\ IF tlBorrowed
       THEN /\ stack' = SetTop([Top EXCEPT !.pc = "fmt_head", !.own = "tmp", !.tmp = <<>>])
            /\ UNCHANGED tlBorrowed
       ELSE /\ stack' = SetTop([Top EXCEPT !.pc = "fmt_head", !.own = "tl"])
            /\ tlBorrowed' = TRUE
    /\ UNCHANGED <<strategy, duplicate, nSinks, tlBuf, errOut, outOut, sinks, recs,
                 nFaults>>
    /\ UNCHANGED nonWriterVars

\* the frame f with text t appended to the buffer it writes to, at pc
Put(f, t, pc) ==
    IF f.own = "tl"
    THEN /\ tlBuf' = Append(tlBuf, t)
         /\ stack' = SetTop([f EXCEPT !.pc = pc])
    ELSE /\ stack' = SetTop([f EXCEPT !.pc = pc, !.tmp = Append(f.tmp, t)])
         /\ UNCHANGED tlBuf

\* write_buffered: (format_function)(&mut buffer, now, record) writes the
\* head of the line, or fails at once: unwrap_or_else(|e| write_err(ERR_1, e))
FormatHead ==
    /\ stack # <<>>
    /\ Top.pc = "fmt_head"
    /\ \/ /\ Put(Top, Head_(Cur), "nested")
          /\ recs' = [recs EXCEPT ![Cur].nFormat = @ + 1]
          /\ UNCHANGED nFaults
       \/ /\ nFaults < MaxFaults
          /\ nFaults' = nFaults + 1
          /\ stack' = SetTop([Top EXCEPT !.pc = "write_err", !.after = "newline"])
          /\ recs' = [recs EXCEPT ![Cur].fmtErr = TRUE, ![Cur].nFormat = @ + 1]
          /\ UNCHANGED tlBuf
    /\ UNCHANGED <<strategy, duplicate, nSinks, tlBorrowed, errOut, outOut, sinks>>
    /\ UNCHANGED nonWriterVars

\* write_buffered: the format function writes the rest of the line and
\* returns, or fails: unwrap_or_else(|e| write_err(ERR_1, e))
FormatTail ==
    /\ stack # <<>>
    /\ Top.pc = "nested"
    /\ \/ /\ Put(Top, Tail_(Cur), "newline")
          /\ UNCHANGED <<recs, nFaults>>
       \/ /\ nFaults < MaxFaults
          /\ nFaults' = nFaults + 1
          /\ stack' = SetTop([Top EXCEPT !.pc = "write_err", !.after = "newline"])
          /\ recs' = [recs EXCEPT ![Cur].fmtErr = TRUE]
          /\ UNCHANGED tlBuf
    /\ UNCHANGED <<strategy, duplicate, nSinks, tlBorrowed, errOut, outOut, sinks>>
    /\ UNCHANGED nonWriterVars

\* write_buffered: buffer.write_all(b"\n")
BufferNewline ==
    /\ stack # <<>>
    /\ Top.pc = "newline"
    /\ Put(Top, Newline(Cur), "write_all")
    /\ UNCHANGED <<strategy, duplicate, nSinks, tlBorrowed, errOut, outOut, sinks, recs,
                 nFaults>>
    /\ UNCHANGED nonWriterVars

\* write_buffered: w.write_all(&*buffer), one call with the whole buffer, or
\* a failure: unwrap_or_else(|e| write_err(ERR_2, e))
StreamWriteAll ==
    /\ stack # <<>>
    /\ Top.pc = "write_all"
    /\ LET text == IF Top.own = "tl" THEN tlBuf ELSE Top.tmp
           next == IF Top.own = "tl" THEN "clear" ELSE "buffered"
       IN \/ /\ IF strategy = "stdout"
                THEN outOut' = Append(outOut, text) /\ UNCHANGED errOut
                ELSE errOut' = Append(errOut, text) /\ UNCHANGED outOut
             /\ stack' = SetTop([Top EXCEPT !.pc = next])
             /\ UNCHANGED <<recs, nFaults>>
          \/ /\ nFaults < MaxFaults
             /\ nFaults' = nFaults + 1
             /\ recs' = [recs EXCEPT ![Cur].ioErr = TRUE]
             /\ stack' = SetTop([Top EXCEPT !.pc = "write_err", !.after = next])
             /\ UNCHANGED <<errOut, outOut>>
    /\ UNCHANGED <<strategy, duplicate, nSinks, tlBuf, tlBorrowed, sinks>>
    /\ UNCHANGED nonWriterVars

\* write_err: eprintln!("[flexi_logger] {} with {}", msg, err) prints a line on
\* stderr and the call goes on; eprintln! panics when it cannot print
WriteErr ==
    /\ stack # <<>>
    /\ Top.pc = "write_err"
    /\ \/ /\ errOut' = Append(errOut, <<Diagnostic(Cur)>>)
          /\ stack' = SetTop([Top EXCEPT !.pc = Top.after])
       \/ /\ stack' = SetTop([Top EXCEPT !.pc = "panicked"])
          /\ UNCHANGED errOut
    /\ UNCHANGED <<strategy, duplicate, nSinks, tlBuf, tlBorrowed, outOut, sinks, recs,
                   nFaults>>
    /\ UNCHANGED nonWriterVars

\* a mutant of BufferClear: the RefMut is dropped and the buffer keeps its bytes
BufferClearKeeps ==
    /\ stack # <<>>
    /\ Top.pc = "clear"
    /\ tlBorrowed' = FALSE
    /\ stack' = SetTop([Top EXCEPT !.pc = "buffered", !.own = "none"])
    /\ UNCHANGED <<strategy, duplicate, nSinks, tlBuf, errOut, outOut, sinks, recs,
                 nFaults>>
    /\ UNCHANGED nonWriterVars

\* write_buffered: buffer.clear(); the RefMut is dropped
BufferClear ==
    /\ stack # <<>>
    /\ Top.pc = "clear"
    /\ tlBuf' = <<>>
    /\ tlBorrowed' = FALSE
    /\ stack' = SetTop([Top EXCEPT !.pc = "buffered", !.own = "none"])
    /\ UNCHANGED <<strategy, duplicate, nSinks, errOut, outOut, sinks, recs,
                 nFaults>>
    /\ UNCHANGED nonWriterVars

\* write_buffered has returned: StdErrWriter::write and StdOutWriter::write
\* return Ok(()), MultiWriter::write goes on to its writers
AfterBuffered ==
    /\ stack # <<>>
    /\ Top.pc = "buffered"
    /\ stack' = SetTop([Top EXCEPT !.pc = IF strategy = "multi" THEN "sinks" ELSE "ret",
                                   !.res = "ok", !.own = "none", !.tmp = <<>>])
    /\ UNCHANGED <<strategy, duplicate, nSinks, tlBuf, tlBorrowed, errOut, outOut, sinks, recs,
                 nFaults>>
    /\ UNCHANGED nonWriterVars

\* a mutant of SinkWrite: a writer's error is swallowed and the loop goes on
SinkWriteSwallow ==
    /\ stack # <<>>
    /\ Top.pc = "sinks"
    /\ \/ /\ sinks' = [sinks EXCEPT ![Top.sink] = Append(@, Cur)]
          /\ UNCHANGED <<recs, nFaults>>
       \/ /\ nFaults < MaxFaults
          /\ nFaults' = nFaults + 1
          /\ recs' = [recs EXCEPT ![Cur].failedSink =
                        IF @ = 0 THEN Top.sink ELSE @]
          /\ UNCHANGED sinks
    /\ stack' = SetTop([Top EXCEPT !.sink = Top.sink + 1,
                                   !.pc = IF Top.sink = nSinks THEN "ret" ELSE "sinks"])
    /\ UNCHANGED <<strategy, duplicate, nSinks, tlBuf, tlBorrowed, errOut, outOut>>
    /\ UNCHANGED nonWriterVars

\* MultiWriter::write: for writer in &self.writers { writer.write(now, record)?; }
SinkWrite ==
    /\ stack # <<>>
    /\ Top.pc = "sinks"
    /\ \/ /\ sinks' = [sinks EXCEPT ![Top.sink] = Append(@, Cur)]
          /\ stack' = SetTop([Top EXCEPT !.sink = Top.sink + 1,
                                         !.pc = IF Top.sink = nSinks THEN "ret" ELSE "sinks"])
          /\ UNCHANGED <<recs, nFaults>>
       \/ /\ nFaults < MaxFaults
          /\ nFaults' = nFaults + 1
          /\ recs' = [recs EXCEPT ![Cur].failedSink = Top.sink]
          /\ stack' = SetTop([Top EXCEPT !.pc = "ret", !.res = "err"])
          /\ UNCHANGED sinks
    /\ UNCHANGED <<strategy, duplicate, nSinks, tlBuf, tlBorrowed, errOut, outOut>>
    /\ UNCHANGED nonWriterVars

\* BlackHoleWriter::write: (self.format)(&mut std::io::stderr(), now, record)?
\* the format function writes the head of the line on stderr, or fails
DirectHead ==
    /\ stack # <<>>
    /\ Top.pc = "d_head"
    /\ \/ /\ errOut' = Append(errOut, <<Head_(Cur)>>)
          /\ stack' = SetTop([Top EXCEPT !.pc = "d_nested"])
          /\ recs' = [recs EXCEPT ![Cur].nFormat = @ + 1]
          /\ UNCHANGED nFaults
       \/ /\ nFaults < MaxFaults
          /\ nFaults' = nFaults + 1
          /\ recs' = [recs EXCEPT ![Cur].fmtErr = TRUE, ![Cur].nFormat = @ + 1]
          /\ stack' = SetTop([Top EXCEPT !.pc = "ret", !.res = "err"])
          /\ UNCHANGED errOut
    /\ UNCHANGED <<strategy, duplicate, nSinks, tlBuf, tlBorrowed, outOut, sinks>>
    /\ UNCHANGED nonWriterVars

\* BlackHoleWriter::write: the format function writes the rest of the line
\* on stderr and returns, or fails
DirectTail ==
    /\ stack # <<>>
    /\ Top.pc = "d_nested"
    /\ \/ /\ errOut' = Append(errOut, <<Tail_(Cur)>>)
          /\ stack' = SetTop([Top EXCEPT !.pc = "d_newline"])
          /\ UNCHANGED <<recs, nFaults>>
       \/ /\ nFaults < MaxFaults
          /\ nFaults' = nFaults + 1
          /\ recs' = [recs EXCEPT ![Cur].fmtErr = TRUE]
          /\ stack' = SetTop([Top EXCEPT !.pc = "ret", !.res = "err"])
          /\ UNCHANGED errOut
    /\ UNCHANGED <<strategy, duplicate, nSinks, tlBuf, tlBorrowed, outOut, sinks>>
    /\ UNCHANGED nonWriterVars

\* BlackHoleWriter::write: std::io::stderr().write_all(b"\n")?
DirectNewline ==
    /\ stack # <<>>
    /\ Top.pc = "d_newline"
    /\ \/ /\ errOut' = Append(errOut, <<Newline(Cur)>>)
          /\ stack' = SetTop([Top EXCEPT !.pc = "ret", !.res = "ok"])
          /\ UNCHANGED <<recs, nFaults>>
       \/ /\ nFaults < MaxFaults
          /\ nFaults' = nFaults + 1
          /\ recs' = [recs EXCEPT ![Cur].ioErr = TRUE]
          /\ stack' = SetTop([Top EXCEPT !.pc = "ret", !.res = "err"])
          /\ UNCHANGED errOut
    /\ UNCHANGED <<strategy, duplicate, nSinks, tlBuf, tlBorrowed, outOut, sinks>>
    /\ UNCHANGED nonWriterVars

\* PrimaryWriter::write returns to its caller
Return ==
    /\ stack # <<>>
    /\ Top.pc = "ret"
    /\ recs' = [recs EXCEPT ![Cur].result = Top.res]
    /\ stack' = SubSeq(stack, 1, Len(stack) - 1)
    /\ UNCHANGED <<strategy, duplicate, nSinks, tlBuf, tlBorrowed, errOut, outOut, sinks,
                 nFaults>>
    /\ UNCHANGED nonWriterVars

WriterNext ==
    \/ LogCall
    \/ NestedLogCall
    \/ Dispatch
    \/ TryBorrowMut
    \/ FormatHead
    \/ FormatTail
    \/ BufferNewline
    \/ StreamWriteAll
    \/ WriteErr
    \/ BufferClear
    \/ AfterBuffered
    \/ SinkWrite
    \/ DirectHead
    \/ DirectTail
    \/ DirectNewline
    \/ Return

-----------------------------------------------------------------------------
(* The duplication decision of MultiWriter::write and BlackHoleWriter::write *)
(* for every Duplicate setting and every record level.                      *)

DuplInitWith(dup, level) ==
    /\ qDup = dup
    /\ qDupLevel = level
    /\ multiDupl = "undecided"
    /\ blackHoleDupl = "undecided"

DuplQuiet == DuplInitWith("None", Error)

DuplInit == \E dup \in Duplicates, level \in Levels : DuplInitWith(dup, level)

\* MultiWriter::write: let dupl = ..
MultiWriterDupl ==
    /\ multiDupl = "undecided"
    /\ multiDupl' = IF DuplMulti(qDup, qDupLevel) THEN "yes" ELSE "no"
    /\ UNCHANGED <<qDup, qDupLevel, blackHoleDupl>>
    /\ UNCHANGED nonDuplVars

\* BlackHoleWriter::write: let dupl = ..
BlackHoleWriterDupl ==
    /\ blackHoleDupl = "undecided"
    /\ blackHoleDupl' = IF DuplBlackHole(qDup, qDupLevel) THEN "yes" ELSE "no"
    /\ UNCHANGED <<qDup, qDupLevel, multiDupl>>
    /\ UNCHANGED nonDuplVars

DuplNext ==
    \/ MultiWriterDupl
    \/ BlackHoleWriterDupl

-----------------------------------------------------------------------------
(* The watch thread of Logger::start_with_specfile.  The handle that        *)
(* Logger::start returns is moved into the thread, so the thread is the     *)
(* only caller of set_new_spec.                                             *)

MaxEdits == 2

SpecFile(readable, d) == [exists |-> TRUE, readable |-> readable, doc |-> d]

\* a file that is there and cannot be read
Unreadable == SpecFile(FALSE, NoDoc)

\* no file under the path
Absent == [exists |-> FALSE, readable |-> FALSE, doc |-> NoDoc]

NotRead == [readable |-> FALSE, doc |-> NoDoc, read |-> FALSE]

\* what the specfile may hold
WatchFiles ==
    { Unreadable,
      SpecFile(TRUE, NoDoc),
      SpecFile(TRUE, LogSpecFileFormat(TRUE, Some(<<"x">>), None, {})),
      SpecFile(TRUE, LogSpecFileFormat(TRUE, Some(<<"I", "n", "f", "o">>), None,
                                       {[k |-> <<"a">>, v |-> <<"x">>]})),
      SpecFile(TRUE, LogSpecFileFormat(TRUE, Some(<<"I", "n", "f", "o">>), Some(<<"(">>), {})),
      SpecFile(TRUE, LogSpecFileFormat(TRUE, Some(<<"I", "n", "f", "o">>),
                                       Some(<<"a", ".", "c">>),
                                       {[k |-> <<"a", "b">>, v |-> <<"d", "e", "b", "u", "g">>]})),
      SpecFile(TRUE, LogSpecFileFormat(TRUE, None, None,
                                       {[k |-> <<"a">>, v |-> <<"e", "r", "r", "o", "r">>]})),
      SpecFile(TRUE, LogSpecFileFormat(TRUE, Some(<<"d", "e", "b", "u", "g">>), None, {})) }

\* a mutant of file: a specification that comes with parse errors is accepted
file_lenient(f) ==
    IF ~f.readable THEN Result(FALSE, FALSE, off, <<"io">>)
    ELSE [from_toml(f.doc) EXCEPT !.ok = from_toml(f.doc).hasSpec]

\* LogSpecification::file(specfile)
file(f) ==
    IF ~f.readable THEN Result(FALSE, FALSE, off, <<"io">>)
    ELSE from_toml(f.doc)

\* the files the watch thread can come to read: the ones written from
\* outside and the one ensure_specfile_is_valid has written
ReadFiles == WatchFiles \cup {SpecFile(TRUE, to_toml(s)) : s \in StoreSpecs}

\* LogSpecification::file on each of these files, computed once
FileResults == {<<f, file(f)>> : f \in ReadFiles}

FileResult(f) == (CHOOSE p \in FileResults : p[1] = f)[2]

\* what the new file holds when a write_all of to_toml has failed: the
\* lines before it
PartlyWritten(spec) ==
    {SpecFile(TRUE, NoDoc)}
    \cup {SpecFile(TRUE, TomlUpTo(spec, n)) : n \in 0..(Len(ModuleLines(spec)) - 1)}

NoHist ==
    [called |-> FALSE, spec |-> off, atCall |-> Absent, ensured |-> Absent,
     initial |-> NotRead, nReads |-> 0, nFailed |-> 0, nRecv |-> 0, nRecvWrite |-> 0]

WatchInit ==
    /\ fileContent \in WatchFiles \cup {Absent}
    /\ suffixOk \in BOOLEAN
    /\ channel = <<>>
    /\ wpc = "setup"
    /\ wContent = NotRead
    /\ wBefore = [store |-> off, maxLevel |-> Off]
    /\ nEdits = 0
    /\ wHist = NoHist

\* the watch thread of a run without specfile
WatchQuiet ==
    /\ fileContent = Unreadable
    /\ suffixOk = TRUE
    /\ channel = <<>>
    /\ wpc = "setup"
    /\ wContent = NotRead
    /\ wBefore = [store |-> off, maxLevel |-> Off]
    /\ nEdits = 0
    /\ wHist = NoHist

\* the watch on the file is established: watcher.watch has returned Ok
Watching == wpc \in {"init", "recv"}

\* self.spec.ensure_specfile_is_valid(&specfile)?
EnsureSpecfileIsValid ==
    /\ wpc = "setup"
    /\ \/ \* the suffix is not toml
          /\ ~suffixOk
          /\ wpc' = "ensure_error"
          /\ UNCHANGED fileContent
       \/ \* Path::is_file
          /\ suffixOk
          /\ fileContent.exists
          /\ wpc' = "ensured"
          /\ UNCHANGED fileContent
       \/ \* DirBuilder::create or OpenOptions::open has failed
          /\ suffixOk
          /\ ~fileContent.exists
          /\ wpc' = "ensure_error"
          /\ UNCHANGED fileContent
       \/ \* the file is created and a write_all of to_toml has failed
          /\ suffixOk
          /\ ~fileContent.exists
          /\ wpc' = "ensure_error"
          /\ fileContent' \in PartlyWritten(store)
       \/ \* the file is created and written
          /\ suffixOk
          /\ ~fileContent.exists
          /\ wpc' = "ensured"
          /\ fileContent' = SpecFile(TRUE, to_toml(store))
    /\ wHist' = [wHist EXCEPT !.called = TRUE, !.spec = store,
                              !.atCall = fileContent, !.ensured = fileContent']
    /\ UNCHANGED <<suffixOk, channel, wContent, wBefore, nEdits>>
    /\ UNCHANGED storeVars
    /\ UNCHANGED nonWatchVars

\* let mut handle = self.start()?: log::set_boxed_logger
WatchStartSetBoxedLogger ==
    /\ wpc = "ensured"
    /\ StartSetBoxedLogger

\* self.start()?: log::set_max_level
WatchStartSetMaxLevel ==
    /\ wpc = "ensured"
    /\ StartSetMaxLevel

\* self.start()? returns Err: the file log writer cannot be made, or a logger
\* is installed already
WatchStartFails ==
    /\ wpc = "ensured"
    /\ startPc = "new"
    /\ wpc' = "start_error"
    /\ UNCHANGED <<fileContent, suffixOk, channel, wContent, wBefore, nEdits, wHist>>
    /\ UNCHANGED storeVars
    /\ UNCHANGED nonWatchVars

\* thread::Builder::new().spawn(..)?: the thread runs, or Err is returned
WatchSpawn ==
    /\ wpc = "ensured"
    /\ startPc = "done"
    /\ wpc' \in {"spawned", "spawn_error"}
    /\ UNCHANGED <<fileContent, suffixOk, channel, wContent, wBefore, nEdits, wHist>>
    /\ UNCHANGED storeVars
    /\ UNCHANGED nonWatchVars

\* the thread: watcher(tx, 800 ms); on Err a diagnostic and return
WatcherNew ==
    /\ wpc = "spawned"
    /\ wpc' \in {"watcher", "ended"}
    /\ UNCHANGED <<fileContent, suffixOk, channel, wContent, wBefore, nEdits, wHist>>
    /\ UNCHANGED storeVars
    /\ UNCHANGED nonWatchVars

\* the thread: watcher.watch(&specfile, ..); on Err a diagnostic and
\* process::exit(-1)
WatcherWatch ==
    /\ wpc = "watcher"
    /\ wpc' \in {"init", "exited"}
    /\ UNCHANGED <<fileContent, suffixOk, channel, wContent, wBefore, nEdits, wHist>>
    /\ UNCHANGED storeVars
    /\ UNCHANGED nonWatchVars

\* the specfile is written once the thread runs (an earlier write is read by
\* the thread just the same); an established watch delivers
\* DebouncedEvent::Write, one for a burst of writes
FileWrite ==
    /\ wpc \in {"watcher", "ended", "init", "recv"}
    /\ nEdits < MaxEdits
    /\ nEdits' = nEdits + 1
    /\ fileContent' \in WatchFiles
    /\ IF Watching
       THEN \/ channel' = Append(channel, "Write")
            \/ /\ channel # <<>>
               /\ channel[Len(channel)] = "Write"
               /\ UNCHANGED channel
       ELSE UNCHANGED channel
    /\ UNCHANGED <<suffixOk, wpc, wContent, wBefore, wHist>>
    /\ UNCHANGED storeVars
    /\ UNCHANGED nonWatchVars

\* the watcher delivers another event
OtherEvent ==
    /\ Watching
    /\ nEdits < MaxEdits
    /\ nEdits' = nEdits + 1
    /\ channel' = Append(channel, "other")
    /\ UNCHANGED <<fileContent, suffixOk, wpc, wContent, wBefore, wHist>>
    /\ UNCHANGED storeVars
    /\ UNCHANGED nonWatchVars

\* match LogSpecification::file(&specfile) { Ok(spec) => handle.set_new_spec(spec),
\* Err(e) => a diagnostic }
Reload ==
    /\ wContent' = [readable |-> fileContent.readable, doc |-> fileContent.doc, read |-> TRUE]
    /\ wBefore' = [store |-> store, maxLevel |-> maxLevel]
    /\ LET r == FileResult(fileContent)
       IN IF r.ok
          THEN /\ hNew' = r.spec
               /\ versions' = Append(versions, r.spec)
               /\ wLock' = TRUE
               /\ hpc' = "module_filters"
          ELSE UNCHANGED <<hNew, versions, wLock, hpc>>
    /\ UNCHANGED <<store, maxLevel, installed, startPc, rLock, returned, em>>
    /\ UNCHANGED <<fileContent, suffixOk, nEdits>>
    /\ UNCHANGED nonWatchVars

\* a thread that enters the loop without the initial read
WatchInitialReadSkipped ==
    /\ wpc = "init"
    /\ wpc' = "recv"
    /\ UNCHANGED <<fileContent, suffixOk, channel, wContent, wBefore, nEdits, wHist>>
    /\ UNCHANGED storeVars
    /\ UNCHANGED nonWatchVars

\* start_with_specfile: the initial read of the file
WatchInitialRead ==
    /\ wpc = "init"
    /\ Reload
    /\ wHist' = [wHist EXCEPT !.initial = wContent', !.nReads = @ + 1,
                              !.nFailed = IF hpc' = "idle" THEN @ + 1 ELSE @]
    /\ wpc' = "recv"
    /\ UNCHANGED channel

\* the thread is at rx.recv() and the channel holds an event of this kind
RecvReady(kind) ==
    /\ wpc = "recv"
    /\ hpc = "idle"
    /\ channel # <<>>
    /\ Head(channel) = kind

\* a mutant of WatchRecvWrite: once a read of the file has failed, the loop
\* takes the events and reads the file no more
WatchRecvWriteGivesUp ==
    /\ RecvReady("Write")
    /\ channel' = Tail(channel)
    /\ IF wHist.nFailed > 0
       THEN /\ wHist' = [wHist EXCEPT !.nRecv = @ + 1, !.nRecvWrite = @ + 1]
            /\ UNCHANGED <<fileContent, suffixOk, wContent, wBefore, nEdits>>
            /\ UNCHANGED storeVars
            /\ UNCHANGED nonWatchVars
       ELSE /\ Reload
            /\ wHist' = [wHist EXCEPT !.nReads = @ + 1, !.nRecv = @ + 1, !.nRecvWrite = @ + 1,
                                      !.nFailed = IF hpc' = "idle" THEN @ + 1 ELSE @]
    /\ UNCHANGED wpc

\* the loop: rx.recv() yields Ok(DebouncedEvent::Write(_))
WatchRecvWrite ==
    /\ RecvReady("Write")
    /\ channel' = Tail(channel)
    /\ Reload
    /\ wHist' = [wHist EXCEPT !.nReads = @ + 1, !.nRecv = @ + 1, !.nRecvWrite = @ + 1,
                              !.nFailed = IF hpc' = "idle" THEN @ + 1 ELSE @]
    /\ UNCHANGED wpc

\* the loop: rx.recv() yields Ok(_event), which is ignored
WatchRecvOther ==
    /\ RecvReady("other")
    /\ channel' = Tail(channel)
    /\ wHist' = [wHist EXCEPT !.nRecv = @ + 1]
    /\ UNCHANGED <<fileContent, suffixOk, wpc, wContent, wBefore, nEdits>>
    /\ UNCHANGED storeVars
    /\ UNCHANGED nonWatchVars

WatchNext ==
    \/ EnsureSpecfileIsValid
    \/ WatchStartSetBoxedLogger
    \/ WatchStartSetMaxLevel
    \/ WatchStartFails
    \/ WatchSpawn
    \/ WatcherNew
    \/ WatcherWatch
    \/ FileWrite
    \/ OtherEvent
    \/ WatchInitialRead
    \/ WatchRecvWrite
    \/ WatchRecvOther
    \/ ReconfigureModuleFilters
    \/ ReconfigureTextfilter
    \/ ReconfigureMaxLevel
    \/ ReleaseWrite

-----------------------------------------------------------------------------
(* The specifications: one per part of the program.                       *)

InitEngine == EngineInit /\ StoreQuiet /\ WriterQuiet /\ WatchQuiet /\ DuplQuiet

SpecEngine == InitEngine /\ [][EngineNext]_vars

\* a program that makes a builder with new(), calls it, builds, calls it
\* again and builds again
ReuseNext ==
    \/ BuilderNew
    \/ BuilderDefault
    \/ BuilderModule
    \/ BuilderRemove
    \/ BuilderBuildKeep
    \/ BuilderBuild

SpecReuse == InitEngine /\ [][ReuseNext]_vars

InitStore == EngineInit /\ StoreInit /\ WriterQuiet /\ WatchQuiet /\ DuplQuiet

SpecStore == InitStore /\ [][StoreNext]_vars

\* a program that starts the logger, makes a specification with parse or
\* from_toml and hands it to set_new_spec
MarkerNext ==
    \/ Parse
    \/ FromToml
    \/ StartSetBoxedLogger
    \/ StartSetMaxLevel
    \/ SetNewSpecBuilt
    \/ ReconfigureModuleFilters
    \/ ReconfigureTextfilter
    \/ ReconfigureMaxLevel
    \/ ReleaseWrite

SpecMarker == InitStore /\ [][MarkerNext]_vars

InitWatch == EngineInit /\ StoreInit /\ WriterQuiet /\ WatchInit /\ DuplQuiet

SpecWatch == InitWatch /\ [][WatchNext]_vars

\* the steps of the watch thread once the watch is established: the initial
\* read, rx.recv() and set_new_spec
WatchThreadStep ==
    \/ WatchInitialRead
    \/ WatchRecvWrite
    \/ WatchRecvOther
    \/ ReconfigureModuleFilters
    \/ ReconfigureTextfilter
    \/ ReconfigureMaxLevel
    \/ ReleaseWrite

\* the watch thread is scheduled fairly: a step of it that stays possible is
\* taken
SpecWatchFair == InitWatch /\ [][WatchNext]_vars /\ WF_vars(WatchThreadStep)

InitWriter == EngineInit /\ StoreQuiet /\ WriterInit /\ WatchQuiet /\ DuplQuiet

SpecWriter == InitWriter /\ [][WriterNext]_vars

InitDupl == EngineInit /\ StoreQuiet /\ WriterQuiet /\ WatchQuiet /\ DuplInit

SpecDupl == InitDupl /\ [][DuplNext]_vars

-----------------------------------------------------------------------------
(* C1                                                                      *)

\* the named rules of spec whose name is a literal prefix of target
PrefixRules(spec, target) ==
    {i \in 1..Len(spec.module_filters) :
        /\ spec.module_filters[i].module_name.some
        /\ starts_with(target, spec.module_filters[i].module_name.val)}

\* among them, those with the longest name
LongestPrefixRules(spec, target) ==
    {i \in PrefixRules(spec, target) :
        \A j \in PrefixRules(spec, target) :
            NameLen(spec.module_filters[j]) <= NameLen(spec.module_filters[i])}

DefaultRules(spec) ==
    {i \in 1..Len(spec.module_filters) : ~spec.module_filters[i].module_name.some}

\* what the claim says enabled() returns; where several rules have the same
\* name, any of them may be the one that decides
DecidedBy(spec, level, target, r) ==
    IF LongestPrefixRules(spec, target) # {}
    THEN \E i \in LongestPrefixRules(spec, target) :
            r = (level <= spec.module_filters[i].level_filter)
    ELSE IF DefaultRules(spec) # {}
    THEN \E i \in DefaultRules(spec) : r = (level <= spec.module_filters[i].level_filter)
    ELSE r = FALSE

\* C1: for every specification produced by parse, from_toml or a builder,
\* enabled(level, path) is decided by the rule with the longest name that is
\* a literal prefix of path, else by the nameless default rule, else false.
C1_EnabledIsLongestPrefix ==
    phase = "evaluated" => DecidedBy(curSpec, qLevel, qPath, qResult)

-----------------------------------------------------------------------------
(* C2                                                                      *)

\* C2: an evaluate observes the module filters and the text filter of one
\* specification, and that specification is the one whose replace had
\* returned when the evaluate started, or a later one.
C2_EvaluateSeesOneSpecification ==
    \A t \in Emitters :
        em[t].pc = "filter" =>
            \E k \in em[t].fromE..Len(versions) :
                /\ em[t].rules = versions[k].module_filters
                /\ em[t].filter = versions[k].textfilter

\* an emitter passed the marker before a replace began, waited for the
\* replace to return and then observed the new specification, which differs
\* from the old one in rules and text filter
C2_Witness ==
    \E t \in Emitters :
        /\ em[t].pc = "filter"
        /\ Len(versions) >= 3
        /\ em[t].fromM < Len(versions)
        /\ em[t].fromE = Len(versions)
        /\ em[t].rules = versions[Len(versions)].module_filters
        /\ em[t].rules # versions[Len(versions) - 1].module_filters
        /\ em[t].filter # versions[Len(versions) - 1].textfilter

-----------------------------------------------------------------------------
(* C3                                                                      *)

\* C3 as claimed: the marker value an emitting thread read is the maximum
\* level of the rule set it is then evaluated against.
C3_MarkerAndRulesOfOneSpecification ==
    \A t \in Emitters :
        em[t].pc \in {"rules", "filter"} =>
            em[t].max = max_level(LogSpecification(em[t].rules, None))

\* C3 as amended: whenever no replace is in progress the marker is the
\* maximum level of the active specification, and the outcome of every
\* emission (dropped at the marker, or enabled() on the rules) is what one
\* complete specification gives that was active between the emission's read
\* of the marker and its decision.
C3_MarkerInSectionAndOutcomeOfOneSpecification ==
    /\ (startPc = "done" /\ ~wLock) => maxLevel = max_level(store)
    /\ \A t \in Emitters :
        em[t].pc = "done" =>
            \E k \in em[t].fromM..em[t].upTo :
                em[t].decision = enabled(versions[k], em[t].level, em[t].target)

\* an emitter read the marker of one specification, a replace installed
\* another with a different maximum level, and the emitter was evaluated
\* against the rules of that one
C3_Witness ==
    \E t \in Emitters :
        /\ em[t].pc = "done"
        /\ em[t].fromM < em[t].fromE
        /\ em[t].max # max_level(LogSpecification(em[t].rules, None))
        /\ em[t].rules = versions[em[t].upTo].module_filters

-----------------------------------------------------------------------------
(* C4: a failed reload in the watch thread                                  *)

KnownLevelNames ==
    { <<"o", "f", "f">>, <<"e", "r", "r", "o", "r">>, <<"w", "a", "r", "n">>,
      <<"i", "n", "f", "o">>, <<"d", "e", "b", "u", "g">>, <<"t", "r", "a", "c", "e">> }

UnknownLevelName(t) == to_lowercase(t) \notin KnownLevelNames

\* the file is unreadable, is invalid TOML, names an unknown level or has an
\* invalid global_pattern
FileFails(c) ==
    \/ ~c.readable
    \/ ~c.doc.wellFormed
    \/ c.doc.global_level.some /\ UnknownLevelName(c.doc.global_level.val)
    \/ \E e \in c.doc.modules : UnknownLevelName(e.v)
    \/ c.doc.global_pattern.some /\ ~RegexNewOk(c.doc.global_pattern.val)

\* C4: when the watch thread's re-read or re-parse of the specification file
\* has failed (file unreadable, invalid TOML, unknown level name, invalid
\* global_pattern), set_new_spec has not been called: the active specification
\* and the marker are what they were before the read, enabled() answers every
\* level and module as before, and the loop is running: it receives the next
\* event
C4_FailedReloadLeavesSpecification ==
    (wContent.read /\ FileFails(wContent)) =>
        /\ hpc = "idle"
        /\ ~wLock
        /\ store = wBefore.store
        /\ maxLevel = wBefore.maxLevel
        /\ \A l \in Levels, m \in TargetModules :
               enabled(store, l, m) = enabled(wBefore.store, l, m)
        /\ wpc = "recv"
        /\ channel # <<>> => (RecvReady("Write") \/ RecvReady("other"))

\* a specification was loaded from the file, then the file got an invalid
\* global_pattern and the reload failed
C4_Witness ==
    /\ wContent.read
    /\ FileFails(wContent)
    /\ wContent.doc.global_pattern = Some(<<"(">>)
    /\ nEdits >= 1
    /\ Len(versions) = 3
    /\ store = versions[3]
    /\ store # versions[2]

-----------------------------------------------------------------------------
(* C5, C6: the lines on the stream                                          *)

\* the stream the strategy writes to
Stream == IF strategy = "stdout" THEN outOut ELSE errOut

RECURSIVE Flatten(_)
Flatten(calls) == IF calls = <<>> THEN <<>> ELSE Head(calls) \o Flatten(Tail(calls))

LineEnds(text) == {i \in 1..Len(text) : text[i].part = "nl"}

LineStart(text, e) == 1 + MaxOfSet({0} \cup {i \in LineEnds(text) : i < e})

Line(text, e) == SubSeq(text, LineStart(text, e), e)

\* no line holds text of two records
Unmixed(text) ==
    \A e \in LineEnds(text) : \A k \in LineStart(text, e)..e : text[k].rec = text[e].rec

\* the line of a record whose format function succeeded is the whole line
Intact(text) ==
    \A e \in LineEnds(text) :
        ~recs[text[e].rec].fmtErr =>
            Line(text, e) = <<Head_(text[e].rec), Tail_(text[e].rec), Newline(text[e].rec)>>

\* the line of a nested call comes before the line of the call that triggered it
NestedFirst(text) ==
    \A e1, e2 \in LineEnds(text) :
        recs[text[e1].rec].parent = text[e2].rec => e1 < e2

\* the write calls on the stream that carry records
RECURSIVE RecordCalls(_)
RecordCalls(calls) ==
    IF calls = <<>> THEN <<>>
    ELSE IF Head(calls)[1].part = "diag" THEN RecordCalls(Tail(calls))
    ELSE <<Head(calls)>> \o RecordCalls(Tail(calls))

Lines == RecordCalls(Stream)

\* the write call c on the stream is one line of one record
OneLine(c) ==
    /\ c # <<>>
    /\ c[Len(c)].part = "nl"
    /\ \A k \in 1..Len(c) : c[k].rec = c[Len(c)].rec
    /\ \A k \in 1..(Len(c) - 1) : c[k].part # "nl"

\* C5: on every path through write_buffered (stderr, stdout, the duplication
\* of MultiWriter) a record reaches the stream in one write call that is one
\* complete line ending in a newline, also when a format function logs:
\* the nested call has returned and its line is on the stream before the line
\* of the call that triggered it, no line holds text of another record, a
\* call in progress can always take its next step, and no call panics on the
\* thread-local buffer
C5_BufferedLinesIntactAndNestedFirst ==
    Buffered =>
        /\ \A c \in 1..Len(Lines) : OneLine(Lines[c])
        /\ Unmixed(Flatten(Lines))
        /\ Intact(Flatten(Lines))
        /\ NestedFirst(Flatten(Lines))
        /\ \A c \in 1..Len(Lines), r \in 1..Len(recs) :
               recs[r].parent = Lines[c][1].rec => recs[r].result # "running"
        /\ \A c, d \in 1..Len(Lines) : Lines[c][1].rec = Lines[d][1].rec => c = d
        /\ \A r \in 1..Len(recs) :
               (recs[r].result # "running" /\ recs[r].buffered /\ ~recs[r].ioErr) =>
                   \E c \in 1..Len(Lines) : Lines[c][1].rec = r
        /\ (stack # <<>> /\ Top.pc # "panicked") => ENABLED WriterNext
        /\ (stack # <<>> /\ Top.pc = "panicked") => (recs[Cur].fmtErr \/ recs[Cur].ioErr)

\* a format function logged while the thread-local buffer was borrowed: the
\* nested line and the outer line are on the stream, whole, in this order
C5_Witness ==
    /\ Buffered
    /\ stack = <<>>
    /\ tlBuf = <<>>
    /\ \E c \in 1..Len(Lines) :
        /\ c > 1
        /\ recs[Lines[c - 1][1].rec].parent = Lines[c][1].rec
        /\ Lines[c] = <<Head_(Lines[c][1].rec), Tail_(Lines[c][1].rec),
                        Newline(Lines[c][1].rec)>>
        /\ Lines[c - 1] = <<Head_(Lines[c - 1][1].rec), Tail_(Lines[c - 1][1].rec),
                            Newline(Lines[c - 1][1].rec)>>

\* C6: with BlackHoleWriter and duplication, a log call made by the format
\* function of an outer call gives two whole lines on stderr, neither holding
\* text of the other, the nested line before the outer line
C6_BlackHoleNestedLinesIntact ==
    strategy = "blackhole" =>
        /\ Unmixed(Flatten(errOut))
        /\ Intact(Flatten(errOut))
        /\ NestedFirst(Flatten(errOut))

-----------------------------------------------------------------------------
(* C7: the duplication table                                                *)

\* None: never; Error: errors; Warn, Info, Debug: that level or more severe;
\* Trace, All: always
DuplicationTable(dup, level) ==
    CASE dup = "None" -> FALSE
      [] dup = "Error" -> level \in {Error}
      [] dup = "Warn" -> level \in {Error, Warn}
      [] dup = "Info" -> level \in {Error, Warn, Info}
      [] dup = "Debug" -> level \in {Error, Warn, Info, Debug}
      [] dup \in {"Trace", "All"} -> level \in {Error, Warn, Info, Debug, Trace}

YesNo(b) == IF b THEN "yes" ELSE "no"

\* C7: for every Duplicate setting and every record level, MultiWriter::write
\* and BlackHoleWriter::write duplicate the record exactly when the table says
\* so, and they take the same decision
C7_DuplicationTable ==
    /\ multiDupl # "undecided" => multiDupl = YesNo(DuplicationTable(qDup, qDupLevel))
    /\ blackHoleDupl # "undecided" => blackHoleDupl = YesNo(DuplicationTable(qDup, qDupLevel))
    /\ (multiDupl # "undecided" /\ blackHoleDupl # "undecided") => multiDupl = blackHoleDupl

\* both strategies have decided on an Info record under Duplicate::Warn: no
C7_Witness ==
    /\ qDup = "Warn"
    /\ qDupLevel = Info
    /\ multiDupl = "no"
    /\ blackHoleDupl = "no"

-----------------------------------------------------------------------------
(* C8, C9, C10: what PrimaryWriter::write returns                           *)

Has(i, r) == \E k \in 1..Len(sinks[i]) : sinks[i][k] = r

\* C8: MultiWriter hands a record to its writers in the order of the vector;
\* the first writer that fails ends the delivery, its error is what write
\* returns, the writers before it have the record and the later ones do not
C8_SinksInOrderFirstErrorReturned ==
    strategy = "multi" =>
        /\ \A r \in 1..Len(recs), i, j \in 1..nSinks : (i < j /\ Has(j, r)) => Has(i, r)
        /\ \A r \in 1..Len(recs) :
               recs[r].result # "running" =>
                   IF recs[r].failedSink = 0
                   THEN /\ recs[r].result = "ok"
                        /\ \A i \in 1..nSinks : Has(i, r)
                   ELSE /\ recs[r].result = "err"
                        /\ \A i \in 1..nSinks : Has(i, r) <=> i < recs[r].failedSink

\* the second of two writers failed: the first has the record, write returned
\* the error
C8_Witness ==
    /\ strategy = "multi"
    /\ nSinks >= 2
    /\ \E r \in 1..Len(recs) :
        /\ recs[r].failedSink = 2
        /\ recs[r].result = "err"
        /\ Has(1, r)
        /\ ~Has(2, r)

\* C9: a failure of the duplication to stderr (format function or stream) is
\* never what write returns, with MultiWriter and with BlackHoleWriter
C9_DuplicationFailureNotReturned ==
    strategy \in {"multi", "blackhole"} =>
        \A r \in 1..Len(recs) :
            (recs[r].result # "running" /\ recs[r].failedSink = 0) => recs[r].result = "ok"

\* C10: with StdErrWriter and StdOutWriter a failed write on the stream is
\* returned to the caller of write
C10_StreamFailureReturned ==
    strategy \in {"stderr", "stdout"} =>
        \A r \in 1..Len(recs) :
            (recs[r].result # "running" /\ recs[r].ioErr) => recs[r].result = "err"

-----------------------------------------------------------------------------
(* Claims about LogSpecification::parse.                                   *)

\* the rule texts of a DSL string: what stands before the first '/', cut at ','
RuleTextsOf(text) == split(split(text, "/")[1], ",")

SlashCount(text) == Len(split(text, "/")) - 1

\* the rules that the rule texts give when each is parsed on its own
RECURSIVE OneByOne(_)
OneByOne(rules) ==
    IF rules = <<>> THEN <<>>
    ELSE parse(Head(rules)).spec.module_filters \o OneByOne(Tail(rules))

\* C11: parse returns for every input, Ok exactly when it recorded no
\* diagnostic and else Err with the diagnostics and a specification; that
\* specification holds the rule of every accepted rule text, whatever was
\* rejected before it
C11_ParseTotalBestEffort ==
    origin = "parse" =>
        /\ phase # "failed"
        /\ ctorOk <=> diags = <<>>
        /\ SlashCount(input) >= 2 => ~ctorOk
        /\ (phase = "built" /\ SlashCount(input) <= 1) =>
               curSpec.module_filters = level_sort(OneByOne(RuleTextsOf(input)))

\* the first rule text was rejected and a later one gave a rule
C11_Witness ==
    /\ origin = "parse"
    /\ ~ctorOk
    /\ SlashCount(input) <= 1
    /\ ParseRule(RuleTextsOf(input)[1]).errs # <<>>
    /\ curSpec.module_filters # <<>>

\* C12: every specification a constructor returns has its rules in order of
\* non-increasing name length, and no nameless rule stands before a named one
C12_SortedDefaultLast ==
    phase = "built" =>
        \A i, j \in 1..Len(curSpec.module_filters) :
            i < j =>
                /\ NameLen(curSpec.module_filters[i]) >= NameLen(curSpec.module_filters[j])
                /\ (~curSpec.module_filters[i].module_name.some
                       => ~curSpec.module_filters[j].module_name.some)

\* the default rules that the rule texts of a DSL string supply, in order
SuppliedByText(text) == ParseRules(RuleTextsOf(text)).dirs

\* C13: once one default rule or more were supplied, the last one supplied
\* decides for a module that no named rule matches, with parse and with the
\* builder
C13_LastDefaultGoverns ==
    (phase = "evaluated" /\ PrefixRules(curSpec, qPath) = {}) =>
        /\ (origin = "parse" /\ SlashCount(input) <= 1
                /\ LastNameless(SuppliedByText(input)).some)
               => qResult = (qLevel <= LastNameless(SuppliedByText(input)).val)
        /\ (origin = "builder" /\ lastDefault.some)
               => qResult = (qLevel <= lastDefault.val)

\* the part of C13 that is about the builder
C13_BuilderLastDefaultGoverns ==
    (phase = "evaluated" /\ PrefixRules(curSpec, qPath) = {}) =>
        ((origin = "builder" /\ lastDefault.some) => qResult = (qLevel <= lastDefault.val))

\* ---- what the specification of the DSL says of one rule text

IsLevelName(t) == to_lowercase(t) \in KnownLevelNames

LevelOfName(t) ==
    LET n == to_lowercase(t)
    IN CASE n = <<"o", "f", "f">> -> Off
         [] n = <<"e", "r", "r", "o", "r">> -> Error
         [] n = <<"w", "a", "r", "n">> -> Warn
         [] n = <<"i", "n", "f", "o">> -> Info
         [] n = <<"d", "e", "b", "u", "g">> -> Debug
         [] OTHER -> Trace

HasDashOrWhitespace(t) == \E i \in 1..Len(t) : t[i] \in {"-", " ", "\t"}

\* the rule text is skipped: nothing but whitespace
EmptyRule(raw) == trim(raw) = <<>>

\* the rule text is rejected: more than one '=', a module token with a dash
\* or whitespace, or a right side that is no level name
RejectedRule(raw) ==
    LET parts == split(trim(raw), "=")
    IN /\ ~EmptyRule(raw)
       /\ \/ Len(parts) > 2
          \/ HasDashOrWhitespace(trim(parts[1]))
          \/ Len(parts) = 2 /\ trim(parts[2]) # <<>> /\ ~IsLevelName(trim(parts[2]))

\* the rule that an accepted rule text stands for
MappedRule(raw) ==
    LET parts == split(trim(raw), "=")
    IN IF Len(parts) = 1
       THEN IF IsLevelName(parts[1])
            THEN ModuleFilter(None, LevelOfName(parts[1]))
            ELSE ModuleFilter(Some(parts[1]), Trace)
       ELSE IF trim(parts[2]) = <<>>
            THEN ModuleFilter(Some(trim(parts[1])), Trace)
            ELSE ModuleFilter(Some(trim(parts[1])), LevelOfName(trim(parts[2])))

RECURSIVE MappedRules(_)
MappedRules(rules) ==
    IF rules = <<>> THEN <<>>
    ELSE (IF EmptyRule(Head(rules)) \/ RejectedRule(Head(rules)) THEN <<>>
          ELSE <<MappedRule(Head(rules))>>) \o MappedRules(Tail(rules))

Named(name, lf) == ModuleFilter(Some(name), lf)

\* C14: a level name alone is the default rule with that level; another
\* token alone, or "module=", is a module rule with Trace; "module=severity"
\* is a module rule with that level; an empty rule text is skipped without a
\* diagnostic; the rules come longest name first; and
\* "crate1::mod1=error,crate1::mod2,crate2=debug" gives Error, Trace, Debug
C14_RuleMapping ==
    (origin = "parse" /\ phase = "built" /\ SlashCount(input) <= 1) =>
        /\ curSpec.module_filters = level_sort(MappedRules(RuleTextsOf(input)))
        /\ (\A i \in 1..Len(RuleTextsOf(input)) : ~RejectedRule(RuleTextsOf(input)[i]))
               => \A i \in 1..Len(diags) : diags[i] = "invalid_regex"
        /\ input = ExampleValid =>
               /\ ctorOk
               /\ curSpec.module_filters =
                      << Named(<<"c", "r", "a", "t", "e", "1", ":", ":", "m", "o", "d", "1">>, Error),
                         Named(<<"c", "r", "a", "t", "e", "1", ":", ":", "m", "o", "d", "2">>, Trace),
                         Named(<<"c", "r", "a", "t", "e", "2">>, Debug) >>
               /\ curSpec.textfilter = None

\* an upper-case level name alone gave the default rule, next to an empty
\* rule text that was skipped
C14_Witness ==
    /\ origin = "parse"
    /\ phase = "built"
    /\ input = <<"W", "A", "R", "N", ",">>
    /\ curSpec.module_filters = <<ModuleFilter(None, Warn)>>
    /\ diags = <<>>

\* the rule texts that were not rejected and the text filter part, as a DSL string
WithoutRejected(text) ==
    Join(SelectSeq(RuleTextsOf(text), LAMBDA r : ~RejectedRule(r)), <<",">>)
        \o (IF SlashCount(text) = 1 THEN <<"/">> \o split(text, "/")[2] ELSE <<>>)

NumberRejected(text) == Len(SelectSeq(RuleTextsOf(text), RejectedRule))

\* C15: each rejected rule text gives one diagnostic and no rule, and the
\* rules and the text filter are those of the input without the rejected rule
\* texts; the two examples give crate2=debug alone, the second with the text
\* filter a.c
C15_RejectedRuleOneDiagnostic ==
    (origin = "parse" /\ phase = "built" /\ SlashCount(input) <= 1) =>
        /\ Len(SelectSeq(diags, LAMBDA d : d # "invalid_regex")) = NumberRejected(input)
        /\ curSpec = parse(WithoutRejected(input)).spec
        /\ input = ExampleInvalidCrate =>
               /\ curSpec = LogSpecification(
                      <<Named(<<"c", "r", "a", "t", "e", "2">>, Debug)>>, None)
               /\ Len(diags) = 1
        /\ input = ExampleDash =>
               /\ curSpec = LogSpecification(
                      <<Named(<<"c", "r", "a", "t", "e", "2">>, Debug)>>,
                      Some(<<"a", ".", "c">>))
               /\ Len(diags) = 1

\* a rule text with a dash in the module token was rejected, and the rule
\* text after it and the text filter were taken
C15_Witness ==
    /\ origin = "parse"
    /\ phase = "built"
    /\ input = ExampleDash
    /\ Len(curSpec.module_filters) = 1
    /\ curSpec.textfilter.some
    /\ ~ctorOk

\* C16: an input with two or more '/' gives Err with exactly one diagnostic
\* and the specification without rules and without text filter, on which
\* enabled() is false for every level and module
C16_SecondSlashAllDisabled ==
    (origin = "parse" /\ SlashCount(input) >= 2) =>
        /\ ~ctorOk
        /\ Len(diags) = 1
        /\ curSpec.module_filters = <<>>
        /\ curSpec.textfilter = None
        /\ phase = "evaluated" => ~qResult
        /\ phase = "built" =>
               \A level \in Levels, target \in TargetModules : ~enabled(curSpec, level, target)

\* enabled() was asked on the result of an input with two '/' that holds a
\* valid rule and a rejected one
C16_Witness ==
    /\ origin = "parse"
    /\ phase = "evaluated"
    /\ SlashCount(input) = 2
    /\ \E i \in 1..Len(RuleTextsOf(input)) :
           ~EmptyRule(RuleTextsOf(input)[i]) /\ ~RejectedRule(RuleTextsOf(input)[i])
    /\ \E i \in 1..Len(RuleTextsOf(input)) : RejectedRule(RuleTextsOf(input)[i])
    /\ qLevel = Error
    /\ ~qResult

\* the pattern has a group that is not closed
Unclosed(p) ==
    Len(SelectSeq(p, LAMBDA c : c = "(")) > Len(SelectSeq(p, LAMBDA c : c = ")"))

\* the part of a DSL string before its first '/'
BeforeSlash(text) == split(text, "/")[1]

\* C17: when what follows the one '/' is not a valid pattern, parse records
\* exactly one diagnostic for it and returns no text filter, and the rules
\* are those of the input without the '/' and the pattern
C17_InvalidPatternNoFilter ==
    (origin = "parse" /\ phase = "built" /\ SlashCount(input) = 1
        /\ Unclosed(split(input, "/")[2])) =>
        /\ ~ctorOk
        /\ curSpec.textfilter = None
        /\ curSpec.module_filters = parse(BeforeSlash(input)).spec.module_filters
        /\ Len(diags) = Len(parse(BeforeSlash(input)).errs) + 1
        /\ diags[Len(diags)] = "invalid_regex"

\* a pattern that does not compile came after two accepted rule texts
C17_Witness ==
    /\ origin = "parse"
    /\ phase = "built"
    /\ SlashCount(input) = 1
    /\ Unclosed(split(input, "/")[2])
    /\ Len(curSpec.module_filters) = 2
    /\ Len(diags) = 1

-----------------------------------------------------------------------------
(* Claims about the file form.                                             *)

RuleSet(spec) == {spec.module_filters[i] : i \in 1..Len(spec.module_filters)}

\* C18: from_toml of the to_toml rendering of a specification succeeds and
\* gives the same set of rules, the same enabled() answer for every level and
\* module, and the text filter of the specification when it has one
C18_TomlRoundTrip ==
    phase = "reread" =>
        /\ reread.ok
        /\ RuleSet(reread.spec) = RuleSet(curSpec)
        /\ \A level \in Levels, target \in TargetModules :
               enabled(reread.spec, level, target) = enabled(curSpec, level, target)
        /\ curSpec.textfilter.some => reread.spec.textfilter = curSpec.textfilter

\* the part of C18 that the code keeps: for a specification without text
\* filter, with pairwise distinct rule names (so at most one default rule)
\* and no empty name, the same rules come back and enabled() answers the same
C18_TomlRoundTripPlain ==
    (/\ phase = "reread"
     /\ ~curSpec.textfilter.some
     /\ \A i, j \in 1..Len(curSpec.module_filters) :
            curSpec.module_filters[i].module_name = curSpec.module_filters[j].module_name
                => i = j
     /\ \A i \in 1..Len(curSpec.module_filters) :
            curSpec.module_filters[i].module_name # Some(<<>>)) =>
        /\ reread.ok
        /\ RuleSet(reread.spec) = RuleSet(curSpec)
        /\ \A level \in Levels, target \in TargetModules :
               enabled(reread.spec, level, target) = enabled(curSpec, level, target)

\* the declarations of a file: its default level, if any, and its modules
Declarations(d) ==
    (IF d.global_level.some THEN {[default |-> TRUE, k |-> <<>>, v |-> d.global_level.val]}
     ELSE {})
    \cup {[default |-> FALSE, k |-> e.k, v |-> e.v] : e \in d.modules}

\* the rule text of a declaration
RuleTextOf(e) == IF e.default THEN e.v ELSE e.k \o <<"=">> \o e.v

\* all the ways of putting the elements of a set in a row
Orders(S) ==
    {o \in [1..Cardinality(S) -> S] : \A i, j \in 1..Cardinality(S) : o[i] = o[j] => i = j}

\* the DSL strings that declare what the file declares, one per textual order
DslForms(d) ==
    {Join([i \in 1..Len(o) |-> RuleTextOf(o[i])], <<",">>)
        \o (IF d.global_pattern.some THEN <<"/">> \o d.global_pattern.val ELSE <<>>) :
     o \in Orders(Declarations(d))}

\* C19 as stated: the rule lists of from_toml(file) and of parse(dsl) are the
\* same sequence, and the text filters are the same, whatever the textual
\* order of the DSL string
C19_FileAndDslEqual ==
    (origin = "from_toml" /\ phase = "built") =>
        \A dsl \in DslForms(doc) :
            /\ parse(dsl).spec.module_filters = curSpec.module_filters
            /\ parse(dsl).spec.textfilter = curSpec.textfilter

NonIncreasing(mfs) ==
    \A i, j \in 1..Len(mfs) : i < j => NameLen(mfs[i]) >= NameLen(mfs[j])

\* C19, amended: from_toml(file) and parse(dsl) hold the same rules, both in
\* order of non-increasing name length (nameless counting as 0), so the two
\* lists differ at most in the order among rules of equal name length; and
\* the text filters are the same, whatever the textual order of the DSL string
C19_FileAndDslEqualUpToTies ==
    (origin = "from_toml" /\ phase = "built") =>
        \A dsl \in DslForms(doc) :
            LET fromDsl == parse(dsl).spec
            IN /\ RuleSet(fromDsl) = RuleSet(curSpec)
               /\ Len(fromDsl.module_filters) = Len(curSpec.module_filters)
               /\ NonIncreasing(fromDsl.module_filters)
               /\ NonIncreasing(curSpec.module_filters)
               /\ fromDsl.textfilter = curSpec.textfilter

\* a file with a default level, a pattern and two modules with names of the
\* same length, for which one DSL order gives the rules in another order
C19_Witness ==
    /\ origin = "from_toml"
    /\ phase = "built"
    /\ ctorOk
    /\ doc.global_level.some
    /\ curSpec.textfilter.some
    /\ Len(curSpec.module_filters) = 3
    /\ \E dsl \in DslForms(doc) : parse(dsl).spec.module_filters # curSpec.module_filters
    /\ \E dsl \in DslForms(doc) : parse(dsl).spec.module_filters = curSpec.module_filters

-----------------------------------------------------------------------------
(* C20: the initialisation of start_with_specfile                          *)

\* the file that holds the to_toml rendering of the specification the Logger
\* was made with
Rendering == SpecFile(TRUE, to_toml(wHist.spec))

\* what the initial read has read, as a file
InitialFile == [exists |-> TRUE, readable |-> wHist.initial.readable, doc |-> wHist.initial.doc]

\* C20: a file that was absent is created with the to_toml rendering of the
\* initial specification; a file that was present is left as it was; when the
\* suffix is not toml or the file could not be created and written,
\* start_with_specfile has returned an error, no logger is installed and no
\* thread reads the file or receives events; and the thread does not process
\* an event before it has read the file once and, when that read gave a
\* specification, has applied it
C20_SpecfileInitialisation ==
    /\ ~wHist.called => (wpc = "setup" /\ ~installed)
    /\ wHist.called =>
        /\ wHist.atCall.exists => wHist.ensured = wHist.atCall
        /\ (suffixOk /\ ~wHist.atCall.exists /\ wpc # "ensure_error")
               => wHist.ensured = Rendering
        /\ (~suffixOk \/ (~wHist.atCall.exists /\ wHist.ensured # Rendering))
               => wpc = "ensure_error"
    /\ wpc = "ensure_error" =>
        /\ ~installed
        /\ startPc = "new"
        /\ maxLevel = Off
        /\ versions = <<off>>
        /\ ~wContent.read
        /\ wHist.nReads = 0
        /\ wHist.nRecv = 0
        /\ channel = <<>>
    /\ ~wHist.initial.read => (wHist.nRecv = 0 /\ wHist.nReads = 0 /\ wpc # "recv")
    /\ wHist.initial.read =>
        /\ wpc = "recv"
        /\ wHist.nReads = 1 + wHist.nRecvWrite
        /\ file(InitialFile).ok =>
               /\ Len(versions) >= 3
               /\ versions[3] = file(InitialFile).spec
               /\ wHist.nRecv > 0 => returned >= 3

\* the file was absent and was created, the thread read the rendering and
\* applied it, and then processed an event
C20_Witness ==
    /\ wHist.called
    /\ ~wHist.atCall.exists
    /\ wHist.ensured = Rendering
    /\ wHist.initial.read
    /\ wHist.initial.doc = to_toml(wHist.spec)
    /\ file(InitialFile).ok
    /\ versions[3] = file(InitialFile).spec
    /\ wHist.nRecv >= 1

-----------------------------------------------------------------------------
(* C21, C22: failures of the watch setup                                   *)

\* C21: once start_with_specfile has started logging, the program does not go
\* on without a watch on the file: the watch is being set up or is
\* established, or the failure was fatal (the process has exited, or
\* start_with_specfile has returned the error)
C21_WatchFailureIsFatal ==
    (installed /\ startPc = "done") =>
        wpc \in {"ensured", "spawned", "watcher", "init", "recv", "exited", "spawn_error"}

\* C22: once Logger::start has installed the logger, no failure of the watch
\* setup terminates the process
C22_SetupErrorLeavesLoggingRunning ==
    installed => wpc # "exited"

-----------------------------------------------------------------------------
(* C23: invocations of the format function by PrimaryWriter::write          *)

\* the records for which PrimaryWriter::write has returned
Returned == {r \in 1..Len(recs) : recs[r].result # "running"}

\* for every record that PrimaryWriter::write has returned from, the format
\* function was invoked exactly once, in every strategy
C23_FormatExactlyOnce ==
    \A r \in Returned : recs[r].nFormat = 1

\* C23: PrimaryWriter::write never invokes a format function more than once
\* for a record; when it has returned it has invoked it exactly once under
\* stderr and stdout, and under multi and black_hole exactly once when the
\* record is duplicated to stderr and not at all when it is not
C23_FormatOnceWhereALineIsWritten ==
    /\ \A r \in 1..Len(recs) : recs[r].nFormat <= 1
    /\ \A r \in Returned :
           recs[r].nFormat =
               IF strategy \in {"stderr", "stdout"}
                  \/ DuplicationTable(duplicate, recs[r].level)
               THEN 1 ELSE 0

\* MultiWriter::write under Duplicate::Warn has returned from an Error record,
\* formatted once, and from an Info record, not formatted, and every writer
\* holds both
C23_Witness ==
    /\ strategy = "multi"
    /\ duplicate = "Warn"
    /\ \E r1, r2 \in Returned :
        /\ recs[r1].level = Error /\ recs[r1].nFormat = 1 /\ recs[r1].result = "ok"
        /\ recs[r2].level = Info /\ recs[r2].nFormat = 0 /\ recs[r2].result = "ok"
        /\ \A i \in 1..nSinks : \E j, k \in 1..Len(sinks[i]) :
               sinks[i][j] = r1 /\ sinks[i][k] = r2

-----------------------------------------------------------------------------
(* C28: the thread-local buffer between calls of write_buffered             *)

\* the positions of a call of PrimaryWriter::write inside write_buffered; a
\* call that panicked in write_err has not returned
WriteBufferedPcs ==
    {"borrow", "fmt_head", "nested", "newline", "write_all", "write_err", "clear", "panicked"}

WriteBufferedInProgress == \E i \in 1..Len(stack) : stack[i].pc \in WriteBufferedPcs

\* C28: whenever no write_buffered call is in progress the thread-local
\* buffer holds nothing and is not borrowed, also after failed format
\* functions, failed stream writes and nested calls; a call that borrows the
\* buffer finds it empty, and the buffer only ever holds text of the record of
\* the call that has borrowed it
C28_ScratchBufferEmptyBetweenCalls ==
    /\ ~WriteBufferedInProgress => (tlBuf = <<>> /\ ~tlBorrowed)
    /\ \A i \in 1..Len(stack) :
           (stack[i].own = "tl" /\ stack[i].pc = "fmt_head") => tlBuf = <<>>
    /\ \A k \in 1..Len(tlBuf) :
           \E i \in 1..Len(stack) : stack[i].own = "tl" /\ stack[i].rec = tlBuf[k].rec

\* a record whose format function logged and then failed has returned, and so
\* has the nested call: the buffer is empty
C28_Witness ==
    /\ stack = <<>>
    /\ tlBuf = <<>>
    /\ \E r1, r2 \in Returned :
        /\ recs[r1].buffered
        /\ recs[r1].fmtErr
        /\ recs[r2].parent = r1
        /\ recs[r2].buffered

-----------------------------------------------------------------------------
(* C29: one write call per record on the stream                             *)

\* the write calls on the stream that carry text of record r
CallsOf(r) ==
    {c \in 1..Len(Stream) :
        \E k \in 1..Len(Stream[c]) : Stream[c][k].rec = r /\ Stream[c][k].part # "diag"}

\* the record r is written to stderr or stdout by the strategy
WrittenToStream(r) == strategy \in {"stderr", "stdout"} \/ recs[r].dupl = "yes"

\* C29: in every strategy that writes to stderr or stdout (stderr, stdout,
\* the duplication of multi and of black_hole) a record whose formatting and
\* writing succeeded has reached the stream in exactly one write call, which
\* is the whole line with its newline
C29_OneWriteCallPerRecord ==
    \A r \in Returned :
        (WrittenToStream(r) /\ ~recs[r].fmtErr /\ ~recs[r].ioErr) =>
            \E c \in 1..Len(Stream) :
                /\ CallsOf(r) = {c}
                /\ Stream[c] = <<Head_(r), Tail_(r), Newline(r)>>

\* the same, for the strategies that go through write_buffered
C29_OneWriteCallPerRecordBuffered ==
    Buffered => C29_OneWriteCallPerRecord

-----------------------------------------------------------------------------
(* C24: a valid file is applied after failed reloads                        *)

\* the watch is established, the file holds a specification without errors
\* and a Write event for it is in the channel
ValidChangeSignalled ==
    /\ Watching
    /\ \E k \in 1..Len(channel) : channel[k] = "Write"
    /\ FileResult(fileContent).ok

\* the watch is established, set_new_spec has returned and the specification
\* in force is the one the file holds
FileContentActive ==
    /\ Watching
    /\ hpc = "idle"
    /\ store = FileResult(fileContent).spec

\* the watch is established and the file does not hold a specification
\* without errors
FileContentInvalid ==
    /\ Watching
    /\ ~FileResult(fileContent).ok

\* C24: under fair scheduling of the watch thread, whenever the file holds
\* valid content and its change is signalled to the loop, whatever number of
\* reloads has failed before, the loop eventually makes the content of the
\* file the active specification, unless the file has been changed to invalid
\* content in the meantime
C24_SelfHealingReload ==
    ValidChangeSignalled ~> (FileContentActive \/ FileContentInvalid)

\* two reloads have failed, and the specification of the file as it is now
\* has been read on a later event and is in force
C24_Witness ==
    /\ wHist.nFailed >= 2
    /\ wHist.nRecvWrite >= 1
    /\ wpc = "recv"
    /\ channel = <<>>
    /\ wContent = [readable |-> fileContent.readable, doc |-> fileContent.doc, read |-> TRUE]
    /\ file(fileContent).ok
    /\ FileContentActive
    /\ store # wHist.spec

-----------------------------------------------------------------------------
(* C25: a builder that is used again after a build                          *)

\* the rules with the name n
RulesNamed(mfs, n) == {i \in 1..Len(mfs) : mfs[i].module_name = n}

\* the rule list holds one rule per module name that was set last (lm) with
\* the level of that call, none for the other names, and one default rule
\* with the level set last (ld)
OneRulePerName(mfs, lm, ld) ==
    /\ \A n \in ModuleNames :
        IF lm[n].some
        THEN \E i \in 1..Len(mfs) :
                /\ RulesNamed(mfs, Some(n)) = {i}
                /\ mfs[i].level_filter = lm[n].val
        ELSE RulesNamed(mfs, Some(n)) = {}
    /\ ld.some
    /\ \E i \in 1..Len(mfs) :
        /\ RulesNamed(mfs, None) = {i}
        /\ mfs[i].level_filter = ld.val

\* longest name first, the default rule last
LongestFirstDefaultLast(mfs) ==
    /\ NonIncreasing(mfs)
    /\ mfs # <<>>
    /\ ~mfs[Len(mfs)].module_name.some

\* the entries of the builder are the modules set last and the default
BuilderHolds(m, lm, ld) ==
    m = {[key |-> Some(n), lf |-> lm[n].val] : n \in {x \in ModuleNames : lm[x].some}}
        \cup {[key |-> None, lf |-> ld.val]}

\* C25: a builder made by new() holds, after any calls of default, module and
\* remove and whether or not it was built from in between, one entry per
\* module set and not removed since and the default, which is Off until it is
\* set; a build gives one rule for each of them with the level of the last
\* call, the longest name first and the default last, and build() no text
\* filter; the specification built earlier stays what it was when it was built
C25_BuilderReuse ==
    origin = "builder" =>
        /\ lastDefault.some
        /\ BuilderHolds(builder, bHist.lastModule, lastDefault)
        /\ nOps = 0 => lastDefault = Some(Off)
        /\ phase = "built" =>
            /\ OneRulePerName(curSpec.module_filters, bHist.lastModule, lastDefault)
            /\ LongestFirstDefaultLast(curSpec.module_filters)
        /\ bHist.earlier.some =>
            /\ OneRulePerName(bHist.earlier.val.spec.module_filters,
                              bHist.earlier.val.lastModule, bHist.earlier.val.lastDefault)
            /\ LongestFirstDefaultLast(bHist.earlier.val.spec.module_filters)
            /\ bHist.earlier.val.spec.textfilter = bHist.earlier.val.tf

\* the same for builders in which no module has the empty name
C25_BuilderReuseNamed ==
    (/\ bHist.lastModule[<<>>] = None
     /\ bHist.earlier.some => bHist.earlier.val.lastModule[<<>>] = None)
        => C25_BuilderReuse

-----------------------------------------------------------------------------
(* C26: the iteration order of the builder's map                            *)

\* no entry of the map has the empty module name
NamesNonEmpty(m) == \A e \in m : e.key # Some(<<>>)

\* C26: for a builder whose module names are non-empty (they are pairwise
\* distinct, being keys of a map), the answer of enabled(level, path) on the
\* specification that was built is the answer on the specification built
\* from any other iteration order of the map
C26_IterationOrderIrrelevant ==
    (origin = "builder" /\ phase = "evaluated" /\ NamesNonEmpty(builder)) =>
        \A o \in IterOrders(builder) :
            enabled(LogSpecification(into_vec_module_filter(o), curSpec.textfilter),
                    qLevel, qPath) = qResult

\* the builder holds two names of equal length with different levels and a
\* default that differs from both, and the question was asked for a path
\* under one of the names
C26_Witness ==
    /\ origin = "builder"
    /\ phase = "evaluated"
    /\ NamesNonEmpty(builder)
    /\ \E e1, e2, d \in builder :
        /\ e1.key = Some(<<"a", "b">>)
        /\ e2.key = Some(<<"b", "a">>)
        /\ d.key = None
        /\ e1.lf # e2.lf
        /\ d.lf # e1.lf
    /\ qPath = <<"a", "b", "c">>
    /\ qResult

-----------------------------------------------------------------------------
(* C30: a parsed specification passed through the builder                   *)

\* LogSpecBuilder::from_module_filters(spec.module_filters()).build(), for
\* each iteration order of the map
Rebuilt(spec) ==
    {LogSpecification(into_vec_module_filter(o), None) :
        o \in IterOrders(from_module_filters(spec.module_filters))}

\* C30: for every specification that parse returns, in Ok or inside Err, the
\* specification built from its module filters gives the same answer of
\* enabled(level, path), also when the input names a module twice or has
\* several default levels
C30_BuilderPreservesMeaning ==
    (origin = "parse" /\ phase = "evaluated") =>
        \A b \in Rebuilt(curSpec) : enabled(b, qLevel, qPath) = qResult

\* no two rules have the same name, and no rule has the empty name
DistinctNonEmptyNames(mfs) ==
    /\ \A i, j \in 1..Len(mfs) : mfs[i].module_name = mfs[j].module_name => i = j
    /\ \A i \in 1..Len(mfs) : mfs[i].module_name # Some(<<>>)

\* the same for specifications whose rules have distinct names, none empty
C30_BuilderPreservesMeaningDistinct ==
    DistinctNonEmptyNames(curSpec.module_filters) => C30_BuilderPreservesMeaning

-----------------------------------------------------------------------------
(* C27: the maximum level as a bound of what is enabled                     *)

\* whatever the specification enables is within its max_level
WithinMaxLevel(spec) ==
    \A level \in Levels, target \in TargetModules :
        enabled(spec, level, target) => level <= max_level(spec)

\* C27: for every specification, what enabled(level, path) accepts has a
\* level within max_level(); max_level() of a specification without rules is
\* Off; and whenever Logger::start has run and no set_new_spec is in progress,
\* the global maximum level is max_level() of the specification in the store,
\* so nothing that the store enables is above the global maximum level
C27_MarkerSound ==
    /\ WithinMaxLevel(curSpec)
    /\ \A spec \in {store, curSpec} :
           spec.module_filters = <<>> => max_level(spec) = Off
    /\ (startPc = "done" /\ hpc = "idle") =>
           /\ maxLevel = max_level(store)
           /\ \A level \in Levels, target \in TargetModules :
                  enabled(store, level, target) => level <= maxLevel

\* set_new_spec has returned after replacing the started specification by a
\* parsed one with rules of different levels; the first rule is not the most
\* verbose one, and an event at the maximum level is enabled
C27_Witness ==
    /\ startPc = "done"
    /\ hpc = "idle"
    /\ origin = "parse"
    /\ store = curSpec
    /\ store # versions[2]
    /\ Len(store.module_filters) >= 2
    /\ store.module_filters[1].level_filter < max_level(store)
    /\ maxLevel # versions[2].module_filters[1].level_filter
    /\ \E target \in TargetModules : enabled(store, maxLevel, target)
    /\ \E target \in TargetModules : ~enabled(store, maxLevel, target)

====
